---- MODULE Spec2Model ----
(***************************************************************************)
(* Model of the two 2D Donkey Kong components of the repository and of its  *)
(* 3D Pac-Man:                                                             *)
(*   src/src/components/DonkeyKong.tsx   (the full, four-level variant)    *)
(*   src/src/components/Game3D.tsx       (Game3D with its GameScene, and   *)
(*                                        DonkeyKongAtari, reduced variant)*)
(*                                                                         *)
(* Lengths are held in tenths of a pixel (U = 10), so that the 0.3 and 0.2 *)
(* gravity steps, the 0.5 conveyor drift and the 0.8 .. 1.3 elevator       *)
(* speeds are integers.                                                    *)
(*                                                                         *)
(* React state (useState) is read through the closure of the render that   *)
(* created the running function: a handler, a timer callback or the frame  *)
(* callback sees the values of ITS render (the record "env"), while refs   *)
(* (useRef) and functional updates setX(prev => ...) see the latest value. *)
(***************************************************************************)
EXTENDS Integers, Sequences, FiniteSets, TLC

U == 10

\* ------------------------------------------------------------ constants
CANVAS_WIDTH == 224
CANVAS_HEIGHT == 256
MARIO_WIDTH == 16
MARIO_HEIGHT == 16
BARREL_WIDTH == 16
BARREL_HEIGHT == 14
FIREBALL_WIDTH == 8
FIREBALL_HEIGHT == 8

\* enum GameState
TITLE_SCREEN == "TITLE_SCREEN"
HOW_HIGH_SCREEN == "HOW_HIGH_SCREEN"
LEVEL_INTRO == "LEVEL_INTRO"
PLAYING == "PLAYING"
MARIO_DEATH == "MARIO_DEATH"
LEVEL_COMPLETE == "LEVEL_COMPLETE"
GAME_OVER == "GAME_OVER"
INTERLUDE == "INTERLUDE"
GameStates ==
  {TITLE_SCREEN, HOW_HIGH_SCREEN, LEVEL_INTRO, PLAYING, MARIO_DEATH,
   LEVEL_COMPLETE, GAME_OVER, INTERLUDE}

\* enum LevelType
GIRDERS == 0
RIVET == 1
ELEVATOR == 2
CONVEYOR == 3

\* ------------------------------------------------------------ bounds
\* frames after which the frame callback is no longer followed
MaxFrames == 56
\* pending 2-second timers kept at once
MaxTimers == 3
\* level numbers followed
MaxLevel == 5
\* frames followed from a mid-game situation
SceneFrames == 3
\* frames followed from a situation in which a spawn is due
CapFrames == 2
\* frames followed from Mario one pixel from a screen edge
WalkFrames == 2
\* frames followed from a death in the tick of a spawn
RespawnFrames == 182
\* frames followed on the Elevators level: by then each of the six elevators
\* has completed a full period of its motion
LiftFrames == 540
\* frames of DonkeyKongAtari followed with a spawn possible in each
SwarmFrames == 5
\* barrels, and fireballs, up to which DonkeyKongAtari's spawn draws are followed
MaxHazards == 1
\* frame callbacks followed while Mario stands at a hammer spot
HoldFrames == 303
\* gameTime.current is read only modulo 120 and modulo 180: where the ticks go
\* on for ever it is kept modulo their least common multiple
TimeWrap == 360
\* frames of Game3D followed from the start of a game
MazeFrames == 20
\* frames of Game3D followed from a situation in a corridor
PowerFrames == 3

\* ------------------------------------------------------------ level data
Rect(x, y, w, h) == [x |-> x * U, y |-> y * U, width |-> w * U, height |-> h * U]

girderPlatforms ==
  << Rect(8, 232, 208, 8), Rect(8, 200, 80, 8), Rect(136, 200, 80, 8),
     Rect(8, 168, 80, 8), Rect(136, 168, 80, 8), Rect(8, 136, 80, 8),
     Rect(136, 136, 80, 8), Rect(8, 104, 80, 8), Rect(136, 104, 80, 8),
     Rect(8, 72, 80, 8), Rect(136, 72, 80, 8), Rect(56, 40, 112, 8) >>

girderLadders ==
  << Rect(88, 200, 8, 32), Rect(120, 168, 8, 32), Rect(88, 136, 8, 32),
     Rect(120, 104, 8, 32), Rect(88, 72, 8, 32), Rect(112, 40, 8, 32) >>

rivetPlatforms ==
  << Rect(8, 232, 208, 8), Rect(8, 168, 208, 8), Rect(8, 104, 208, 8),
     Rect(56, 40, 112, 8) >>

rivetLadders ==
  << Rect(32, 168, 8, 64), Rect(88, 104, 8, 64), Rect(136, 168, 8, 64),
     Rect(184, 104, 8, 64), Rect(112, 40, 8, 64) >>

elevatorPlatforms == << Rect(8, 232, 208, 8), Rect(8, 40, 208, 8) >>

conveyorPlatforms ==
  << Rect(8, 232, 208, 8), Rect(8, 200, 64, 8), Rect(88, 200, 48, 8),
     Rect(152, 200, 64, 8), Rect(8, 168, 64, 8), Rect(152, 168, 64, 8),
     Rect(56, 136, 112, 8), Rect(56, 40, 112, 8) >>

conveyorLadders ==
  << Rect(72, 200, 8, 32), Rect(144, 200, 8, 32), Rect(72, 168, 8, 32),
     Rect(144, 168, 8, 32), Rect(112, 136, 8, 32), Rect(112, 40, 8, 96) >>

getCurrentPlatforms(lv) ==
  CASE lv = GIRDERS -> girderPlatforms
    [] lv = RIVET -> rivetPlatforms
    [] lv = ELEVATOR -> elevatorPlatforms
    [] lv = CONVEYOR -> conveyorPlatforms
    [] OTHER -> girderPlatforms

getCurrentLadders(lv) ==
  CASE lv = GIRDERS -> girderLadders
    [] lv = RIVET -> rivetLadders
    [] lv = ELEVATOR -> << >>
    [] lv = CONVEYOR -> conveyorLadders
    [] OTHER -> girderLadders

\* ------------------------------------------------------------ helpers
Max(a, b) == IF a > b THEN a ELSE b
Min(a, b) == IF a < b THEN a ELSE b
Abs(a) == IF a < 0 THEN 0 - a ELSE a
Range(s) == {s[i] : i \in 1..Len(s)}

startMario == [x |-> 24 * U, y |-> 232 * U, vx |-> 0, vy |-> 0]

\* A localStorage item: absent (getItem returns null), the decimal digits of
\* the number n (what score.toString() writes), or text that is not a number.
NoItem == [kind |-> "absent", n |-> 0]
Digits(n) == [kind |-> "digits", n |-> n]
Letters == [kind |-> "letters", n |-> 0]

\* stands for Number.NaN (scores are never negative)
NaN == 0 - 1

\* parseInt of the text of an item
parseInt(item) == IF item.kind = "digits" THEN item.n ELSE NaN

\* a > b on JavaScript numbers: false when either side is NaN
Greater(a, b) == a # NaN /\ b # NaN /\ a > b

\* DonkeyKong: useState(7650), then the mount effect's
\* if (savedHighScore) setHighScore(parseInt(savedHighScore))
loadHighScore(item) == IF item.kind = "absent" THEN 7650 ELSE parseInt(item)

\* DonkeyKongAtari: useState(() => saved ? parseInt(saved) : 0)
atariLoadHighScore(item) == IF item.kind = "absent" THEN 0 ELSE parseInt(item)

\* the tick whose gameTime.current is gt throws a barrel / spawns a fireball
throwsBarrel(lv, gt, list) == lv = GIRDERS /\ gt % 120 = 0 /\ Len(list) < 4
spawnsFireball(lv, gt, list) == lv = RIVET /\ gt % 180 = 0 /\ Len(list) < 2

seededRivets ==
  << [x |-> 8 * U, y |-> 168 * U, removed |-> FALSE],
     [x |-> 208 * U, y |-> 168 * U, removed |-> FALSE],
     [x |-> 8 * U, y |-> 104 * U, removed |-> FALSE],
     [x |-> 208 * U, y |-> 104 * U, removed |-> FALSE],
     [x |-> 56 * U, y |-> 40 * U, removed |-> FALSE],
     [x |-> 160 * U, y |-> 40 * U, removed |-> FALSE] >>

seededElevators ==
  << [x |-> 32 * U, y |-> 200 * U, direction |-> -1, speed |-> 10],
     [x |-> 64 * U, y |-> 150 * U, direction |-> 1, speed |-> 12],
     [x |-> 96 * U, y |-> 180 * U, direction |-> -1, speed |-> 8],
     [x |-> 128 * U, y |-> 120 * U, direction |-> 1, speed |-> 11],
     [x |-> 160 * U, y |-> 160 * U, direction |-> -1, speed |-> 9],
     [x |-> 192 * U, y |-> 140 * U, direction |-> 1, speed |-> 13] >>

checkCollision(r1, r2) ==
  /\ r1.x < r2.x + r2.width
  /\ r1.x + r1.width > r2.x
  /\ r1.y < r2.y + r2.height
  /\ r1.y + r1.height > r2.y

marioRect(m) == [x |-> m.x, y |-> m.y, width |-> MARIO_WIDTH * U, height |-> MARIO_HEIGHT * U]
barrelRect(b) == [x |-> b.x, y |-> b.y, width |-> BARREL_WIDTH * U, height |-> BARREL_HEIGHT * U]
fireballRect(f) == [x |-> f.x, y |-> f.y, width |-> FIREBALL_WIDTH * U, height |-> FIREBALL_HEIGHT * U]

\* lv: currentLevel of the calling closure; elevs: elevators.current
isOnPlatform(lv, elevs, x, y) ==
  \/ \E p \in Range(getCurrentPlatforms(lv)) :
       /\ x + MARIO_WIDTH * U > p.x
       /\ x < p.x + p.width
       /\ y + MARIO_HEIGHT * U >= p.y
       /\ y + MARIO_HEIGHT * U <= p.y + p.height + 4 * U
  \/ /\ lv = ELEVATOR
     /\ \E i \in 1..Len(elevs) :
          /\ x + MARIO_WIDTH * U > elevs[i].x
          /\ x < elevs[i].x + 16 * U
          /\ y + MARIO_HEIGHT * U >= elevs[i].y
          /\ y + MARIO_HEIGHT * U <= elevs[i].y + 8 * U

canClimbLadder(lv, x, y) ==
  \E l \in Range(getCurrentLadders(lv)) :
    /\ x + (MARIO_WIDTH * U) \div 2 >= l.x
    /\ x + (MARIO_WIDTH * U) \div 2 <= l.x + l.width
    /\ y + MARIO_HEIGHT * U >= l.y
    /\ y <= l.y + l.height

\* ------------------------------------------------------------ per-frame updates
\* A frame works on a record w of everything it can write:
\*   mario, barrels, fireballs, rivets, elevators (refs), bonusTimer (ref),
\*   gameState, score, bonus, marioHasHammer, hammerTimer (pending React state),
\*   ran (observer: the update functions the frame has executed so far)
\* and reads React state through env, the closure of the render that created
\* the frame callback: env.gameState, env.currentLevel, env.bonus,
\* env.marioHasHammer.

Goal(m) == m.y <= 48 * U /\ m.x >= 56 * U /\ m.x <= 168 * U

AllRemoved(rv) == \A i \in 1..Len(rv) : rv[i].removed

WinReached(lv, m, rv) ==
  IF lv = RIVET THEN AllRemoved(rv)
  ELSE IF lv \in {GIRDERS, ELEVATOR, CONVEYOR} THEN Goal(m)
  ELSE FALSE

\* checkWinCondition() that takes the bonus from the score
checkWinConditionCharging(w, env) ==
  IF WinReached(env.currentLevel, w.mario, w.rivets)
  THEN [w EXCEPT !.gameState = IF env.currentLevel = RIVET THEN INTERLUDE
                               ELSE LEVEL_COMPLETE,
                 !.score = @ - env.bonus]
  ELSE w

checkWinCondition(w, env) ==
  IF WinReached(env.currentLevel, w.mario, w.rivets)
  THEN [w EXCEPT !.gameState = IF env.currentLevel = RIVET THEN INTERLUDE
                               ELSE LEVEL_COMPLETE,
                 !.score = @ + env.bonus]
  ELSE w

hammerPositions == << [x |-> 40 * U, y |-> 192 * U], [x |-> 160 * U, y |-> 128 * U] >>

\* the first platform of ps that catches a falling box (wd x h) at (x, y)
Lands(p, x, y, wd, h) ==
  /\ x + wd > p.x
  /\ x < p.x + p.width
  /\ y + h > p.y
  /\ y + h < p.y + p.height + 8 * U

LandIdx(ps, x, y, wd, h) ==
  IF \E i \in 1..Len(ps) : Lands(ps[i], x, y, wd, h)
  THEN CHOOSE i \in 1..Len(ps) :
         Lands(ps[i], x, y, wd, h) /\ \A j \in 1..(i - 1) : ~Lands(ps[j], x, y, wd, h)
  ELSE 0

\* conveyor belt effect: the first platform 1 .. length-2 (0-based) under Mario
OnBelt(p, m) ==
  /\ m.x + MARIO_WIDTH * U > p.x
  /\ m.x < p.x + p.width
  /\ m.y + MARIO_HEIGHT * U >= p.y
  /\ m.y + MARIO_HEIGHT * U <= p.y + p.height + 4 * U

beltIdx(ps, m) ==
  IF \E i \in 2..(Len(ps) - 1) : OnBelt(ps[i], m)
  THEN CHOOSE i \in 2..(Len(ps) - 1) :
         OnBelt(ps[i], m) /\ \A j \in 2..(i - 1) : ~OnBelt(ps[j], m)
  ELSE 0

\* handle input, conveyor, jumping, ladder climbing, gravity: the velocity
\* with which the position is updated.  onP = isOnPlatform(m.x, m.y),
\* climb = canClimbLadder(m.x, m.y), belt = beltIdx (1-based)
marioVelocity(m, lv, k, onP, climb, belt) ==
  [vx |-> IF ("up" \in k \/ "down" \in k) /\ climb THEN 0
          ELSE (IF "left" \in k THEN 0 - U ELSE IF "right" \in k THEN U ELSE 0)
               + (IF lv = CONVEYOR /\ onP /\ belt # 0
                  THEN (IF (belt - 1) % 2 = 0 THEN 5 ELSE 0 - 5) ELSE 0),
   vy |-> (IF "up" \in k /\ climb THEN 0 - U
           ELSE IF "up" \notin k /\ "down" \in k /\ climb THEN U
           ELSE IF "jump" \in k /\ m.vy = 0 /\ onP THEN 0 - 4 * U
           ELSE m.vy)
          + (IF climb THEN 0 ELSE 3)]

marioIntegrate(m, v) == [x |-> m.x + v.vx, y |-> m.y + v.vy, vx |-> v.vx, vy |-> v.vy]

snapMario(ps, li, m) ==
  IF li = 0 THEN m ELSE [m EXCEPT !.y = ps[li].y - MARIO_HEIGHT * U, !.vy = 0]

OnElev(e, m) ==
  /\ m.x + MARIO_WIDTH * U > e.x
  /\ m.x < e.x + 16 * U
  /\ m.y + MARIO_HEIGHT * U > e.y
  /\ m.y + MARIO_HEIGHT * U < e.y + 16 * U

elevatorIdx(elevs, m) ==
  IF \E i \in 1..Len(elevs) : OnElev(elevs[i], m)
  THEN CHOOSE i \in 1..Len(elevs) :
         OnElev(elevs[i], m) /\ \A j \in 1..(i - 1) : ~OnElev(elevs[j], m)
  ELSE 0

rideElevator(elevs, ei, m) ==
  IF ei = 0 THEN m
  ELSE [m EXCEPT !.y = elevs[ei].y - MARIO_HEIGHT * U
                       + elevs[ei].direction * elevs[ei].speed,
                 !.vy = 0]

\* platform collision and elevator collision (both inside "if (m.vy > 0)")
marioCollide(lv, elevs, m, snapped) ==
  IF m.vy <= 0 THEN m
  ELSE IF lv = ELEVATOR THEN rideElevator(elevs, elevatorIdx(elevs, snapped), snapped)
  ELSE snapped

\* the screen boundaries without the lower one
clampMarioRight(m) ==
  [m EXCEPT !.x = Min((CANVAS_WIDTH - MARIO_WIDTH) * U, @)]

clampMario(m) ==
  [m EXCEPT !.x = Max(0, Min((CANVAS_WIDTH - MARIO_WIDTH) * U, @))]

\* platform collision, elevator collision, screen boundaries of the moved Mario
marioResolve(lv, elevs, m) ==
  clampMario(
    marioCollide(lv, elevs, m,
      snapMario(getCurrentPlatforms(lv),
        LandIdx(getCurrentPlatforms(lv), m.x, m.y, MARIO_WIDTH * U, MARIO_HEIGHT * U),
        m)))

\* Mario after "handle input" .. "screen boundaries"
marioPhysics(m, lv, elevs, k) ==
  marioResolve(lv, elevs,
    marioIntegrate(m,
      marioVelocity(m, lv, k, isOnPlatform(lv, elevs, m.x, m.y),
                    canClimbLadder(lv, m.x, m.y),
                    beltIdx(getCurrentPlatforms(lv), m))))

hammerPicked(lv, hasHammer, m) ==
  /\ lv = GIRDERS
  /\ ~hasHammer
  /\ \E i \in 1..Len(hammerPositions) :
       /\ Abs(m.x - hammerPositions[i].x) < 16 * U
       /\ Abs(m.y - hammerPositions[i].y) < 16 * U

\* death if falling off screen, hammer pickup, hammer timer; m is Mario as moved
marioEffects(w, env, m, pick) ==
  [w EXCEPT
     !.mario = m,
     !.gameState = IF m.y > CANVAS_HEIGHT * U THEN MARIO_DEATH ELSE @,
     !.marioHasHammer = IF env.marioHasHammer /\ w.hammerTimer <= 1 THEN FALSE
                        ELSE IF pick THEN TRUE ELSE @,
     !.hammerTimer = IF env.marioHasHammer
                     THEN (IF @ <= 1 THEN 0 ELSE @ - 1)
                     ELSE IF pick THEN 300 ELSE @,
     !.ran = Append(@, "updateMario")]

marioMoved(w, env, m) ==
  marioEffects(w, env, m, hammerPicked(env.currentLevel, env.marioHasHammer, m))

updateMario(w, env, k) ==
  checkWinCondition(
    marioMoved(w, env, marioPhysics(w.mario, env.currentLevel, w.elevators, k)), env)

newBarrel ==
  [x |-> 56 * U, y |-> 72 * U, vx |-> U, vy |-> 0, onLadder |-> FALSE]

\* position update and gravity
barrelMove(b) ==
  [b EXCEPT !.x = @ + b.vx, !.y = @ + b.vy, !.vy = IF b.onLadder THEN @ ELSE @ + 3]

\* platform collision
barrelLand(ps, li, b) ==
  IF b.vy > 0 /\ li # 0
  THEN [b EXCEPT !.y = ps[li].y - BARREL_HEIGHT * U, !.vy = 0, !.onLadder = FALSE]
  ELSE b

barrelAtLadder(ls, b) ==
  \E i \in 1..Len(ls) :
    /\ b.x + (BARREL_WIDTH * U) \div 2 >= ls[i].x
    /\ b.x + (BARREL_WIDTH * U) \div 2 <= ls[i].x + ls[i].width
    /\ b.y + BARREL_HEIGHT * U >= ls[i].y

\* ladder interaction; draw: Math.random() < 0.02 came out true
barrelLadder(ls, b, draw) ==
  IF ~b.onLadder /\ draw /\ barrelAtLadder(ls, b)
  THEN [b EXCEPT !.onLadder = TRUE, !.vy = 2 * U, !.vx = 0]
  ELSE b

barrelOff(b) ==
  \/ b.y > CANVAS_HEIGHT * U
  \/ b.x < 0 - 20 * U
  \/ b.x > (CANVAS_WIDTH + 20) * U

\* the barrel as the filter callback leaves it
barrelResolve(b, draw, lv) ==
  barrelLadder(getCurrentLadders(lv),
    barrelLand(getCurrentPlatforms(lv),
      LandIdx(getCurrentPlatforms(lv), b.x, b.y, BARREL_WIDTH * U, BARREL_HEIGHT * U),
      b),
    draw)

barrelMotion(b, draw, lv) == barrelResolve(barrelMove(b), draw, lv)

\* the verdict of the filter callback on a moved barrel nb
barrelVerdict(nb, hasHammer, m) ==
  [b |-> nb,
   keep |-> ~barrelOff(nb)
            /\ ~(hasHammer /\ checkCollision(marioRect(m), barrelRect(nb))),
   kill |-> ~barrelOff(nb) /\ ~hasHammer /\ checkCollision(marioRect(m), barrelRect(nb)),
   smash |-> ~barrelOff(nb) /\ hasHammer /\ checkCollision(marioRect(m), barrelRect(nb))]

stepBarrel(b, draw, lv, hasHammer, m) ==
  barrelVerdict(barrelMotion(b, draw, lv), hasHammer, m)

IsKept(r) == r.keep

\* barrelsFiltered without the setGameState(MARIO_DEATH) of a lethal contact
barrelsFilteredSparing(w, r, kept) ==
  [w EXCEPT !.barrels = [i \in 1..Len(kept) |-> kept[i].b],
            !.score = @ + 300 * Cardinality({i \in 1..Len(r) : r[i].smash}),
            !.ran = Append(@, "updateBarrels")]

\* r: the verdicts on the barrels, in list order
barrelsFiltered(w, r, kept) ==
  [w EXCEPT !.barrels = [i \in 1..Len(kept) |-> kept[i].b],
            !.gameState = IF \E i \in 1..Len(r) : r[i].kill THEN MARIO_DEATH ELSE @,
            !.score = @ + 300 * Cardinality({i \in 1..Len(r) : r[i].smash}),
            !.ran = Append(@, "updateBarrels")]

barrelsJudged(w, r) == barrelsFiltered(w, r, SelectSeq(r, IsKept))

barrelsStepped(w, env, list, D) ==
  barrelsJudged(w,
    [i \in 1..Len(list) |->
       stepBarrel(list[i], i \in D, env.currentLevel, env.marioHasHammer, w.mario)])

\* updateBarrels() that throws without looking at the length of the list
updateBarrelsUncapped(w, env, gt, D) ==
  barrelsStepped(w, env,
    IF env.currentLevel = GIRDERS /\ gt % 120 = 0
    THEN Append(w.barrels, newBarrel) ELSE w.barrels,
    D)

\* gt: gameTime.current; D: the indexes (after the spawn) of the barrels whose
\* 2% draw came out true
updateBarrels(w, env, gt, D) ==
  barrelsStepped(w, env,
    IF throwsBarrel(env.currentLevel, gt, w.barrels)
    THEN Append(w.barrels, newBarrel) ELSE w.barrels,
    D)

fireballMove(f) == [f EXCEPT !.x = @ + f.vx, !.y = @ + f.vy, !.vy = @ + 2]

\* platform collision (bounce) and bounce off walls
fireballBounce(ps, li, f) ==
  [f EXCEPT !.y = IF f.vy > 0 /\ li # 0 THEN ps[li].y - FIREBALL_HEIGHT * U ELSE @,
            !.vy = IF f.vy > 0 /\ li # 0 THEN 0 - 2 * U ELSE @,
            !.vx = IF f.x <= 0 \/ f.x >= (CANVAS_WIDTH - FIREBALL_WIDTH) * U
                   THEN 0 - @ ELSE @]

fireballResolve(f, lv) ==
  fireballBounce(getCurrentPlatforms(lv),
    LandIdx(getCurrentPlatforms(lv), f.x, f.y, FIREBALL_WIDTH * U, FIREBALL_HEIGHT * U),
    f)

fireballMotion(f, lv) == fireballResolve(fireballMove(f), lv)

fireballVerdict(nf, m) ==
  [f |-> nf,
   keep |-> ~(nf.y > CANVAS_HEIGHT * U),
   kill |-> ~(nf.y > CANVAS_HEIGHT * U) /\ checkCollision(marioRect(m), fireballRect(nf))]

stepFireball(f, lv, m) == fireballVerdict(fireballMotion(f, lv), m)

fireballsFiltered(w, r, kept) ==
  [w EXCEPT !.fireballs = [i \in 1..Len(kept) |-> kept[i].f],
            !.gameState = IF \E i \in 1..Len(r) : r[i].kill THEN MARIO_DEATH ELSE @,
            !.ran = Append(@, "updateFireballs")]

fireballsJudged(w, r) == fireballsFiltered(w, r, SelectSeq(r, IsKept))

fireballsStepped(w, env, list) ==
  fireballsJudged(w,
    [i \in 1..Len(list) |-> stepFireball(list[i], env.currentLevel, w.mario)])

\* fvx: the horizontal velocity drawn for a spawned fireball (1 or -1 pixel)
updateFireballs(w, env, gt, fvx) ==
  fireballsStepped(w, env,
    IF spawnsFireball(env.currentLevel, gt, w.fireballs)
    THEN Append(w.fireballs, [x |-> 24 * U, y |-> 232 * U, vx |-> fvx, vy |-> 0])
    ELSE w.fireballs)

\* the turn that is taken at the lower bound (y = 200) only
elevatorTurnLow(e) ==
  [e EXCEPT !.direction = IF e.y >= 200 * U THEN 0 - @ ELSE @]

elevatorTurn(e) ==
  [e EXCEPT !.direction = IF e.y <= 50 * U \/ e.y >= 200 * U THEN 0 - @ ELSE @]

stepElevator(e) == elevatorTurn([e EXCEPT !.y = @ + e.direction * e.speed])

updateElevators(w, env) ==
  [w EXCEPT !.elevators = IF env.currentLevel # ELEVATOR THEN @
                          ELSE [i \in 1..Len(@) |-> stepElevator(@[i])],
            !.ran = Append(@, "updateElevators")]

NearRivet(m, r) == ~r.removed /\ Abs(m.x - r.x) < 8 * U /\ Abs(m.y - r.y) < 8 * U

updateRivets(w, env) ==
  IF env.currentLevel # RIVET THEN [w EXCEPT !.ran = Append(@, "updateRivets")]
  ELSE [w EXCEPT
          !.rivets = [i \in 1..Len(@) |->
                        IF NearRivet(w.mario, @[i])
                        THEN [@[i] EXCEPT !.removed = TRUE] ELSE @[i]],
          !.score = @ + 100 * Cardinality({i \in 1..Len(w.rivets) :
                                             NearRivet(w.mario, w.rivets[i])}),
          !.ran = Append(@, "updateRivets")]

\* updateBonus() without the floor at 0
updateBonusUnfloored(w) ==
  IF w.bonusTimer + 1 >= 60
  THEN [w EXCEPT !.bonus = @ - 100, !.bonusTimer = 0,
                 !.ran = Append(@, "updateBonus")]
  ELSE [w EXCEPT !.bonusTimer = @ + 1, !.ran = Append(@, "updateBonus")]

updateBonus(w) ==
  IF w.bonusTimer + 1 >= 60
  THEN [w EXCEPT !.bonus = Max(0, @ - 100), !.bonusTimer = 0,
                 !.ran = Append(@, "updateBonus")]
  ELSE [w EXCEPT !.bonusTimer = @ + 1, !.ran = Append(@, "updateBonus")]

\* the Playing branch of gameLoop (gt is gameTime.current after the increment)
playingUpdates(w, env, gt, k, D, fvx) ==
  updateBonus(
    updateRivets(
      updateElevators(
        updateFireballs(
          updateBarrels(updateMario(w, env, k), env, gt, D), env, gt, fvx), env), env))

gameLoopBody(w, env, gt, k, D, fvx) ==
  IF env.gameState = PLAYING THEN playingUpdates(w, env, gt, k, D, fvx) ELSE w

\* ------------------------------------------------------------ DonkeyKongAtari
\* The reduced variant keeps everything in React state.  A frame callback
\* belongs to the latest render (the loop effect is re-subscribed whenever one
\* of the update callbacks changes), so its closure a is the state before the
\* frame; the updater functions it queues are applied in the order queued.
atariPlatforms ==
  << Rect(0, 220, 320, 8), Rect(40, 180, 240, 8), Rect(0, 140, 280, 8),
     Rect(40, 100, 240, 8), Rect(0, 60, 320, 8) >>

atariLadders ==
  << Rect(80, 180, 16, 40), Rect(240, 140, 16, 40), Rect(80, 100, 16, 40),
     Rect(240, 60, 16, 40) >>

\* the Mario object of the initial state and of resetGame
atariStartMario ==
  [x |-> 50 * U, y |-> 200 * U, onGround |-> TRUE, jumping |-> FALSE,
   climbing |-> FALSE, hasHammer |-> FALSE, hammerTimer |-> 0]

\* useState<GameObject | null>(null); setHammer({ x: 120, y: 160, ... active })
noHammer == [present |-> FALSE, active |-> FALSE]
freshHammer == [present |-> TRUE, active |-> TRUE]

\* a hazard object: ref stands for the identity of the JavaScript object (only
\* ever compared for equality), paid is an observer counting the rewards that
\* checkCollisions has credited for the hazard
atariNewBarrel(level, ref) ==
  [ref |-> ref, x |-> 40 * U, y |-> 44 * U, active |-> TRUE, direction |-> 1,
   speed |-> 10 + 2 * level, onLadder |-> FALSE, paid |-> 0]

atariNewFireball(level, ref, dir) ==
  [ref |-> ref, x |-> 160 * U, y |-> 200 * U, active |-> TRUE, direction |-> dir,
   speed |-> 5 + level, climbing |-> FALSE, paid |-> 0]

atariMarioRect(m) == [x |-> m.x, y |-> m.y, width |-> 16 * U, height |-> 16 * U]
atariBarrelRect(b) == [x |-> b.x, y |-> b.y, width |-> 16 * U, height |-> 16 * U]
atariFireballRect(f) == [x |-> f.x, y |-> f.y, width |-> 12 * U, height |-> 12 * U]

\* updateMario: horizontal movement
atariWalk(m, k) ==
  [m EXCEPT !.x = IF "left" \in k /\ ~m.climbing THEN Max(0, @ - 2 * U)
                  ELSE IF "right" \in k /\ ~m.climbing THEN Min(304 * U, @ + 2 * U)
                  ELSE @]

atariOnLadder(m) ==
  \E l \in Range(atariLadders) :
    /\ m.x + 8 * U >= l.x
    /\ m.x + 8 * U <= l.x + l.width
    /\ m.y + 16 * U >= l.y
    /\ m.y <= l.y + l.height

\* updateMario: ladder climbing
atariClimb(m, k, onLadder) ==
  IF onLadder /\ "up" \in k
  THEN [m EXCEPT !.y = Max(0, @ - 2 * U), !.climbing = TRUE, !.onGround = FALSE]
  ELSE IF onLadder /\ "down" \in k
  THEN [m EXCEPT !.y = Min(220 * U, @ + 2 * U), !.climbing = TRUE, !.onGround = FALSE]
  ELSE [m EXCEPT !.climbing = FALSE]

\* updateMario: jumping
atariJump(m, k) ==
  IF "jump" \in k /\ m.onGround /\ ~m.jumping /\ ~m.climbing
  THEN [m EXCEPT !.jumping = TRUE, !.onGround = FALSE]
  ELSE m

\* updateMario: gravity and jumping physics; prevY is prev.y
atariGravity(m, prevY) ==
  IF m.onGround \/ m.climbing THEN m
  ELSE IF m.jumping
  THEN [m EXCEPT !.y = @ - 4 * U, !.jumping = ~(m.y - 4 * U <= prevY - 32 * U)]
  ELSE [m EXCEPT !.y = @ + 3 * U]

atariStands(p, m) ==
  /\ m.x + 16 * U > p.x
  /\ m.x < p.x + p.width
  /\ m.y + 16 * U >= p.y
  /\ m.y + 16 * U <= p.y + p.height + 5 * U

RECURSIVE atariLand(_, _)
\* updateMario: platforms.forEach from platform i on
atariLand(m, i) ==
  IF i > Len(atariPlatforms) THEN m
  ELSE atariLand(IF atariStands(atariPlatforms[i], m)
                 THEN [m EXCEPT !.y = atariPlatforms[i].y - 16 * U, !.onGround = TRUE,
                                !.jumping = FALSE]
                 ELSE m,
                 i + 1)

\* hammer logic that lets the hammer go one frame late
atariHammerTickLate(m) ==
  IF m.hasHammer
  THEN [m EXCEPT !.hammerTimer = @ - 1, !.hasHammer = ~(m.hammerTimer - 1 < 0)]
  ELSE m

\* updateMario: hammer logic
atariHammerTick(m) ==
  IF m.hasHammer
  THEN [m EXCEPT !.hammerTimer = @ - 1, !.hasHammer = ~(m.hammerTimer - 1 <= 0)]
  ELSE m

\* updateMario: check hammer pickup, against the hammer of the closure
atariPicks(m, hammer) ==
  /\ hammer.present
  /\ hammer.active
  /\ Abs(m.x - 120 * U) < 20 * U
  /\ Abs(m.y - 160 * U) < 20 * U

atariPickup(m, hammer) ==
  IF atariPicks(m, hammer) THEN [m EXCEPT !.hasHammer = TRUE, !.hammerTimer = 300] ELSE m

\* the updater that updateMario hands to setMario, applied to prev
atariMarioUpdater(prev, k, hammer) ==
  atariPickup(
    atariHammerTick(
      atariLand(
        [atariGravity(
           atariJump(atariClimb(atariWalk(prev, k), k, atariOnLadder(atariWalk(prev, k))), k),
           prev.y)
         EXCEPT !.onGround = FALSE],
        1)),
    hammer)

\* the setHammer updater queued by a pickup
atariHammerUpdater(prevHammer, picked) ==
  IF picked /\ prevHammer.present THEN [prevHammer EXCEPT !.active = FALSE]
  ELSE prevHammer

\* updateBarrels: platform boundaries
atariOnRow(p, b) ==
  /\ b.y + 16 * U >= p.y
  /\ b.y + 16 * U <= p.y + p.height + 5 * U

atariRowIdx(b) ==
  IF \E i \in 1..Len(atariPlatforms) : atariOnRow(atariPlatforms[i], b)
  THEN CHOOSE i \in 1..Len(atariPlatforms) :
         atariOnRow(atariPlatforms[i], b)
           /\ \A j \in 1..(i - 1) : ~atariOnRow(atariPlatforms[j], b)
  ELSE 0

atariRoll(b) == [b EXCEPT !.x = @ + b.direction * b.speed]

atariTurn(b, pi) ==
  IF pi = 0 THEN b
  ELSE IF b.x <= atariPlatforms[pi].x
  THEN [b EXCEPT !.x = atariPlatforms[pi].x, !.direction = 1]
  ELSE IF b.x + 16 * U >= atariPlatforms[pi].x + atariPlatforms[pi].width
  THEN [b EXCEPT !.x = atariPlatforms[pi].x + atariPlatforms[pi].width - 16 * U,
                 !.direction = -1]
  ELSE b

\* updateBarrels: check ladder descent
atariNear(l, b) == Abs(b.x - l.x) < 20 * U /\ b.y + 16 * U >= l.y

atariNearIdx(b) ==
  IF \E i \in 1..Len(atariLadders) : atariNear(atariLadders[i], b)
  THEN CHOOSE i \in 1..Len(atariLadders) :
         atariNear(atariLadders[i], b)
           /\ \A j \in 1..(i - 1) : ~atariNear(atariLadders[j], b)
  ELSE 0

\* draw: Math.random() < 0.1
atariEngage(b, draw, li) ==
  IF ~b.onLadder /\ draw /\ li # 0
  THEN [b EXCEPT !.onLadder = TRUE, !.x = atariLadders[li].x]
  ELSE b

\* updateBarrels: ladder movement
atariAt(l, b) == Abs(b.x - l.x) < 10 * U

atariAtIdx(b) ==
  IF \E i \in 1..Len(atariLadders) : atariAt(atariLadders[i], b)
  THEN CHOOSE i \in 1..Len(atariLadders) :
         atariAt(atariLadders[i], b) /\ \A j \in 1..(i - 1) : ~atariAt(atariLadders[j], b)
  ELSE 0

atariLeave(b, li) ==
  [b EXCEPT !.onLadder = ~(li # 0 /\ b.y >= atariLadders[li].y + atariLadders[li].height)]

atariDescend(b) ==
  IF b.onLadder THEN atariLeave([b EXCEPT !.y = @ + b.speed], atariAtIdx(b)) ELSE b

\* updateBarrels: remove if off screen
atariDrop(b) == [b EXCEPT !.active = ~(b.y > 240 * U)]

atariBarrelEngaged(b, draw) == atariDescend(atariEngage(b, draw, atariNearIdx(b)))

atariBarrelTurned(b, draw) == atariBarrelEngaged(atariTurn(b, atariRowIdx(b)), draw)

\* the map callback of updateBarrels on an active barrel: a new object
\* ({ ...barrel }), n references later than the one it copies
atariMoveBarrel(b, draw, n) ==
  IF ~b.active THEN b
  ELSE atariDrop(atariBarrelTurned(atariRoll([b EXCEPT !.ref = @ + n]), draw))

IsActive(h) == h.active

\* the map of the updater that updateBarrels hands to setBarrels, on the list
\* with the spawned barrel; D: the indexes whose ladder draw came out true
atariBarrelsMapped(list, D) ==
  [i \in 1..Len(list) |-> atariMoveBarrel(list[i], i \in D, Len(list))]

atariBarrelsUpdater(prev, level, spawn, D) ==
  atariBarrelsMapped(
    IF spawn THEN Append(prev, atariNewBarrel(level, Len(prev) + 1)) ELSE prev, D)

\* updateFireballs: the map callback; draw is "roll" or "climb" for a fireball
\* that is not climbing, "up", "down", "upStop" or "downStop" for one that is
atariFireRoll(f) == [f EXCEPT !.x = @ + f.direction * f.speed]

atariFireTurn(f) ==
  [f EXCEPT !.direction = IF f.x <= 0 \/ f.x >= 304 * U THEN 0 - @ ELSE @]

atariFireNear(l, f) == Abs(f.x - l.x) < 20 * U

atariFireNearIdx(f) ==
  IF \E i \in 1..Len(atariLadders) : atariFireNear(atariLadders[i], f)
  THEN CHOOSE i \in 1..Len(atariLadders) :
         atariFireNear(atariLadders[i], f)
           /\ \A j \in 1..(i - 1) : ~atariFireNear(atariLadders[j], f)
  ELSE 0

atariFireEngage(f, draw, li) ==
  IF draw = "climb" /\ li # 0
  THEN [f EXCEPT !.climbing = TRUE, !.x = atariLadders[li].x]
  ELSE f

atariFireClimb(f, draw) ==
  [f EXCEPT !.y = IF draw \in {"down", "downStop"} THEN @ + f.speed ELSE @ - f.speed,
            !.climbing = draw \notin {"upStop", "downStop"}]

atariFireRolled(f, draw) == atariFireEngage(f, draw, atariFireNearIdx(f))

atariMoveFireball(f, draw, n) ==
  IF ~f.active THEN f
  ELSE IF ~f.climbing
  THEN atariFireRolled(atariFireTurn(atariFireRoll([f EXCEPT !.ref = @ + n])), draw)
  ELSE atariFireClimb([f EXCEPT !.ref = @ + n], draw)

atariFireballsMapped(list, fd) ==
  [i \in 1..Len(list) |-> atariMoveFireball(list[i], fd[i], Len(list))]

\* spawn: "no", or the direction drawn for the spawned fireball;
\* fd: the draws of the fireballs (the spawned one included)
atariFireballsUpdater(prev, level, spawn, fd) ==
  atariFireballsMapped(
    IF spawn = "no" THEN prev
    ELSE Append(prev, atariNewFireball(level, Len(prev) + 1,
                                       IF spawn = "right" THEN 1 ELSE -1)),
    fd)

\* checkCollisions: the hazards of the closure that touch the closure's Mario
atariHitBarrels(a) ==
  {i \in 1..Len(a.barrels) :
     a.barrels[i].active
       /\ checkCollision(atariMarioRect(a.mario), atariBarrelRect(a.barrels[i]))}

atariHitFireballs(a) ==
  {i \in 1..Len(a.fireballs) :
     a.fireballs[i].active
       /\ checkCollision(atariMarioRect(a.mario), atariFireballRect(a.fireballs[i]))}

\* prev.map(b => b === barrel ? { ...b, active: false } : b) for every hazard
\* of refs, the references of the closure's hazards that were hit; the hazard
\* of the closure at index i was paid when i is in hit
atariDeactivate(list, refs) ==
  [i \in 1..Len(list) |->
     [list[i] EXCEPT !.active = IF list[i].ref \in refs THEN FALSE ELSE @]]

atariCredit(list, hit) ==
  [i \in 1..Len(list) |-> [list[i] EXCEPT !.paid = IF i \in hit THEN @ + 1 ELSE @]]

\* references are only compared, so the objects of the next render are
\* numbered by position
atariRenumber(list) == [i \in 1..Len(list) |-> [list[i] EXCEPT !.ref = i]]

atariRefs(list, hit) == {list[i].ref : i \in hit}

\* the setLives updaters of n loseLife() calls, applied in turn to lives: the
\* last value, whether resetGame ran, whether setGameState('gameOver') ran
RECURSIVE atariLoseLives(_, _)
atariLoseLives(r, n) ==
  IF n = 0 THEN r
  ELSE atariLoseLives([lives |-> r.lives - 1,
                       reset |-> r.reset \/ r.lives - 1 > 0,
                       over |-> r.over \/ r.lives - 1 <= 0],
                      n - 1)

atariWon(m) == m.x > 280 * U /\ m.y < 80 * U

\* the list a render computes from the queued updaters: mapped is the list of
\* updateBarrels / updateFireballs after its map, filtered by active, and then,
\* with the hammer, mapped by the deactivating updaters of checkCollisions
atariSettled(mapped, hasHammer, hit, refs) ==
  IF hasHammer
  THEN atariDeactivate(SelectSeq(atariCredit(mapped, hit), IsActive), refs)
  ELSE SelectSeq(mapped, IsActive)

\* the state after the render that follows a frame of closure a: nb, nf are
\* the lists of updateBarrels and updateFireballs after their map, hb, hf
\* the hit hazards of the closure, d the outcome of the loseLife calls
atariRendered(a, m, picked, nb, nf, hb, hf, d) ==
  [a EXCEPT
     !.mario = IF d.reset THEN atariStartMario ELSE m,
     !.hammer = IF d.reset THEN freshHammer ELSE atariHammerUpdater(@, picked),
     !.barrels = IF d.reset THEN << >>
                 ELSE atariRenumber(atariSettled(nb, a.mario.hasHammer, hb,
                                                 atariRefs(a.barrels, hb))),
     !.fireballs = IF d.reset THEN << >>
                   ELSE atariRenumber(atariSettled(nf, a.mario.hasHammer, hf,
                                                   atariRefs(a.fireballs, hf))),
     !.score = IF a.mario.hasHammer
               THEN @ + 300 * Cardinality(hb) + 500 * Cardinality(hf) ELSE @,
     !.lives = d.lives,
     !.gameState = IF d.over THEN "gameOver"
                   ELSE IF atariWon(a.mario) THEN "levelComplete" ELSE @,
     !.highScore = IF d.over /\ Greater(a.score, a.highScore) THEN a.score ELSE @,
     !.stored = IF d.over /\ Greater(a.score, a.highScore) THEN Digits(a.score)
                ELSE @,
     !.timers = IF atariWon(a.mario) THEN Append(@, [bonus |-> a.bonus]) ELSE @,
     !.bonus = IF d.reset THEN 5000 ELSE Max(0, @ - 1)]

atariCollided(a, m, picked, nb, nf, hb, hf) ==
  atariRendered(a, m, picked, nb, nf, hb, hf,
    atariLoseLives([lives |-> a.lives, reset |-> FALSE, over |-> FALSE],
                   IF a.mario.hasHammer THEN 0 ELSE Cardinality(hb) + Cardinality(hf)))

\* one frame: updateMario, updateBarrels, updateFireballs, checkCollisions,
\* setBonus, and the render that applies what they queued
atariGameLoop(a, k, spawnB, D, spawnF, fd) ==
  atariCollided(a, atariMarioUpdater(a.mario, k, a.hammer),
    atariPicks(atariMarioUpdater(a.mario, k, a.hammer), a.hammer),
    atariBarrelsUpdater(a.barrels, a.level, spawnB, D),
    atariFireballsUpdater(a.fireballs, a.level, spawnF, fd),
    atariHitBarrels(a), atariHitFireballs(a))

\* resetGame() on the pending state
atariResetGame(a) ==
  [a EXCEPT !.mario = atariStartMario, !.barrels = << >>, !.fireballs = << >>,
            !.hammer = freshHammer, !.bonus = 5000]

atariStartGame(a) ==
  [atariResetGame(a) EXCEPT !.gameState = "playing", !.score = 0, !.lives = 3,
                            !.level = 1]

\* nextLevel() of a closure whose bonus is b
atariNextLevel(a, b) ==
  [atariResetGame(a) EXCEPT !.level = @ + 1, !.score = @ + b, !.gameState = "playing"]

\* ------------------------------------------------------------ Game3D (3D Pac-Man)
\* Positions are held in hundredths of a maze cell (H = 100), so that the
\* steps 0.05 and 0.03 are integers; the rounding error of the floating-point
\* sums is left out.
H == 100
MAZE_SIZE == 21
PACMAN_SPEED == 5
GHOST_SPEED == 3

\* Math.round of a length in hundredths: to the nearest integer, halves upwards
MathRound(v) == (v + H \div 2) \div H

\* 1 = wall, 0 = empty, 2 = dot, 3 = power pellet; row z, column x
MAZE_LAYOUT ==
  << << 1,1,1,1,1,1,1,1,1,1,1,1,1,1,1,1,1,1,1,1,1 >>,
     << 1,2,2,2,2,2,2,2,2,2,1,2,2,2,2,2,2,2,2,2,1 >>,
     << 1,3,1,1,1,2,1,1,1,2,1,2,1,1,1,2,1,1,1,3,1 >>,
     << 1,2,2,2,2,2,2,2,2,2,2,2,2,2,2,2,2,2,2,2,1 >>,
     << 1,2,1,1,1,2,1,2,1,1,1,1,1,2,1,2,1,1,1,2,1 >>,
     << 1,2,2,2,2,2,1,2,2,2,1,2,2,2,1,2,2,2,2,2,1 >>,
     << 1,1,1,1,1,2,1,1,1,0,1,0,1,1,1,2,1,1,1,1,1 >>,
     << 0,0,0,0,1,2,1,0,0,0,0,0,0,0,1,2,1,0,0,0,0 >>,
     << 1,1,1,1,1,2,1,0,1,1,0,1,1,0,1,2,1,1,1,1,1 >>,
     << 0,0,0,0,0,2,0,0,1,0,0,0,1,0,0,2,0,0,0,0,0 >>,
     << 1,1,1,1,1,2,1,0,1,0,0,0,1,0,1,2,1,1,1,1,1 >>,
     << 0,0,0,0,0,2,0,0,1,1,1,1,1,0,0,2,0,0,0,0,0 >>,
     << 1,1,1,1,1,2,1,0,1,1,1,1,1,0,1,2,1,1,1,1,1 >>,
     << 0,0,0,0,1,2,1,0,0,0,0,0,0,0,1,2,1,0,0,0,0 >>,
     << 1,1,1,1,1,2,1,1,1,0,1,0,1,1,1,2,1,1,1,1,1 >>,
     << 1,2,2,2,2,2,2,2,2,2,1,2,2,2,2,2,2,2,2,2,1 >>,
     << 1,2,1,1,1,2,1,1,1,2,1,2,1,1,1,2,1,1,1,2,1 >>,
     << 1,3,2,2,1,2,2,2,2,2,2,2,2,2,2,2,1,2,2,3,1 >>,
     << 1,1,1,2,1,2,1,2,1,1,1,1,1,2,1,2,1,2,1,1,1 >>,
     << 1,2,2,2,2,2,1,2,2,2,1,2,2,2,1,2,2,2,2,2,1 >>,
     << 1,1,1,1,1,1,1,1,1,1,1,1,1,1,1,1,1,1,1,1,1 >> >>

\* maze[gridZ][gridX]
cellAt(maze, gridX, gridZ) == maze[gridZ + 1][gridX + 1]

\* the test of a movement branch of useFrame for the position (x, z) tried
passable(maze, x, z) ==
  /\ MathRound(x) >= 0
  /\ MathRound(x) < MAZE_SIZE
  /\ MathRound(z) >= 0
  /\ MathRound(z) < MAZE_SIZE
  /\ cellAt(maze, MathRound(x), MathRound(z)) # 1

\* the keys a frame can find held, as event.key.toLowerCase() names them
KeyUp(k) == "w" \in k \/ "arrowup" \in k
KeyDown(k) == "s" \in k \/ "arrowdown" \in k
KeyLeft(k) == "a" \in k \/ "arrowleft" \in k
KeyRight(k) == "d" \in k \/ "arrowright" \in k

\* the four movement branches, each on the position the one before left
pacmanUp(maze, k, p) ==
  IF KeyUp(k) /\ passable(maze, p.x, p.z - PACMAN_SPEED)
  THEN [p EXCEPT !.z = @ - PACMAN_SPEED, !.moved = TRUE] ELSE p

pacmanDown(maze, k, p) ==
  IF KeyDown(k) /\ passable(maze, p.x, p.z + PACMAN_SPEED)
  THEN [p EXCEPT !.z = @ + PACMAN_SPEED, !.moved = TRUE] ELSE p

pacmanLeft(maze, k, p) ==
  IF KeyLeft(k) /\ passable(maze, p.x - PACMAN_SPEED, p.z)
  THEN [p EXCEPT !.x = @ - PACMAN_SPEED, !.moved = TRUE] ELSE p

pacmanRight(maze, k, p) ==
  IF KeyRight(k) /\ passable(maze, p.x + PACMAN_SPEED, p.z)
  THEN [p EXCEPT !.x = @ + PACMAN_SPEED, !.moved = TRUE] ELSE p

\* "Move Pac-Man": newPos and moved for the position pos and the keys k
pacmanMoved(maze, pos, k) ==
  pacmanRight(maze, k,
    pacmanLeft(maze, k,
      pacmanDown(maze, k,
        pacmanUp(maze, k, [x |-> pos.x, z |-> pos.z, moved |-> FALSE]))))

\* the kind of cell a moved Pac-Man is on: 2 or 3 is collected
collected(maze, np) ==
  IF np.moved THEN cellAt(maze, MathRound(np.x), MathRound(np.z)) ELSE 0

\* setMaze of the dot and pellet collection
mazeCleared(maze, np) ==
  IF collected(maze, np) \in {2, 3}
  THEN [maze EXCEPT ![MathRound(np.z) + 1][MathRound(np.x) + 1] = 0]
  ELSE maze

\* setGameState(prev => ({ ...prev, ...newState }))
handleGameStateChange(prev, newState) ==
  [f \in DOMAIN prev |-> IF f \in DOMAIN newState THEN newState[f] ELSE prev[f]]

RECURSIVE stateChanges(_, _)
\* the queued updaters of the calls of onGameStateChange, applied in turn
stateChanges(prev, calls) ==
  IF calls = << >> THEN prev
  ELSE stateChanges(handleGameStateChange(prev, Head(calls)), Tail(calls))

\* the calls of onGameStateChange of the dot and pellet collection, with the
\* score of the closure gs
collectionCalls(gs, kind) ==
  IF kind = 2 THEN << [score |-> gs.score + 10] >>
  ELSE IF kind = 3
  THEN << [score |-> gs.score + 50, powerMode |-> TRUE, powerModeTimer |-> 10] >>
  ELSE << >>

\* distance < 0.5 between the closure's Pac-Man and the closure's ghost
caught(pos, ghost) ==
  (pos.x - ghost.pos.x) * (pos.x - ghost.pos.x)
    + (pos.z - ghost.pos.z) * (pos.z - ghost.pos.z) < (H \div 2) * (H \div 2)

caughtBy(pos, ghosts) == {i \in 1..Len(ghosts) : caught(pos, ghosts[i])}

\* the call of onGameStateChange for one ghost that is within the distance
collisionCall(gs) ==
  IF gs.powerMode THEN [score |-> gs.score + 200]
  ELSE [lives |-> gs.lives - 1,
        gameStatus |-> IF gs.lives <= 1 THEN "gameOver" ELSE "playing"]

\* "Check ghost collision": one call for every ghost of the closure in reach
collisionCalls(gs, pos, ghosts) ==
  [j \in 1..Cardinality(caughtBy(pos, ghosts)) |-> collisionCall(gs)]

directions ==
  << [x |-> 1, z |-> 0], [x |-> 0 - 1, z |-> 0], [x |-> 0, z |-> 1],
     [x |-> 0, z |-> 0 - 1] >>

ghostAhead(ghost) ==
  [x |-> ghost.pos.x + ghost.direction.x * GHOST_SPEED,
   z |-> ghost.pos.z + ghost.direction.z * GHOST_SPEED]

\* the ghost's next position is off the grid or in a wall
ghostBlocked(maze, ghost) == ~passable(maze, ghostAhead(ghost).x, ghostAhead(ghost).z)

\* "Move ghosts" for one ghost; draw.turn: Math.random() < 0.01 came out
\* true, draw.dir: the index Math.floor(Math.random() * 4) + 1
ghostMoved(maze, ghost, draw) ==
  IF ghostBlocked(maze, ghost) \/ draw.turn
  THEN [ghost EXCEPT !.direction = directions[draw.dir]]
  ELSE [ghost EXCEPT !.pos = ghostAhead(ghost)]

ghostsMoved(maze, ghosts, draws) ==
  [i \in 1..Len(ghosts) |-> ghostMoved(maze, ghosts[i], draws[i])]

pacmanStart == [x |-> 10 * H, z |-> 15 * H]

initialGhosts ==
  << [pos |-> [x |-> 10 * H, z |-> 9 * H], direction |-> directions[1]],
     [pos |-> [x |-> 9 * H, z |-> 9 * H], direction |-> directions[2]],
     [pos |-> [x |-> 11 * H, z |-> 9 * H], direction |-> directions[3]],
     [pos |-> [x |-> 10 * H, z |-> 10 * H], direction |-> directions[4]] >>

\* the state startGame sets; restartGame sets the same with gameStatus 'start'
newGameState(status) ==
  [score |-> 0, lives |-> 3, gameStatus |-> status, powerMode |-> FALSE,
   powerModeTimer |-> 0]

\* no setTimeout of the power mode effect is pending
NoTimeout == 0 - 1

\* The power mode effect after a render: g is the component with the new
\* gameState and the timeout of the effect's last run, deps the dependencies
\* of that run.  A change of powerMode or powerModeTimer clears the timeout
\* and runs the effect: it sets a timeout that holds the timer of its render
\* and, at timer 1, switches the power mode off at once, which in turn clears
\* that timeout and runs the effect a last time.
powerModeEffect(g, deps) ==
  IF << g.gameState.powerMode, g.gameState.powerModeTimer >> = deps THEN g
  ELSE IF ~(g.gameState.powerMode /\ g.gameState.powerModeTimer > 0)
  THEN [g EXCEPT !.timeout = NoTimeout]
  ELSE IF g.gameState.powerModeTimer = 1
  THEN [g EXCEPT !.timeout = NoTimeout, !.gameState.powerMode = FALSE]
  ELSE [g EXCEPT !.timeout = g.gameState.powerModeTimer]

powerDeps(g) == << g.gameState.powerMode, g.gameState.powerModeTimer >>

\* useFrame of the render g with the ghosts' draws, np the moved Pac-Man: the
\* render that follows it, before its effects
frameRendered(g, draws, np) ==
  [g EXCEPT
     !.pacmanPos = IF ~g.gameState.powerMode /\ caughtBy(g.pacmanPos, g.ghosts) # {}
                   THEN pacmanStart
                   ELSE IF np.moved THEN [x |-> np.x, z |-> np.z] ELSE @,
     !.maze = mazeCleared(@, np),
     !.ghosts = ghostsMoved(g.maze, @, draws),
     !.gameState = stateChanges(@,
                     collectionCalls(g.gameState, collected(g.maze, np))
                       \o collisionCalls(g.gameState, g.pacmanPos, g.ghosts)),
     !.periods = IF collected(g.maze, np) = 3 THEN 0 ELSE @]

useFrame(g, draws) ==
  IF g.gameState.gameStatus # "playing" THEN g
  ELSE powerModeEffect(
         frameRendered(g, draws, pacmanMoved(g.maze, g.pacmanPos, g.keys)),
         powerDeps(g))

\* the key listeners of GameScene
handleKeyDown(g, key) == [g EXCEPT !.keys = @ \cup {key}]

handleKeyUp(g, key) == [g EXCEPT !.keys = @ \ {key}]

\* the pending timeout of the power mode effect runs
powerModeTimeout(g) ==
  powerModeEffect(
    [g EXCEPT !.gameState = handleGameStateChange(@, [powerModeTimer |-> g.timeout - 1]),
              !.timeout = NoTimeout,
              !.periods = @ + 1],
    powerDeps(g))

\* the click on START GAME, and on PLAY AGAIN
game3dStartGame(g) ==
  powerModeEffect([g EXCEPT !.gameState = newGameState("playing")], powerDeps(g))

game3dRestartGame(g) ==
  powerModeEffect([g EXCEPT !.gameState = newGameState("start")], powerDeps(g))

\* Game3D with its GameScene after construction; periods is an observer: the
\* timeouts of the power mode effect that ran since the last power pellet
game3dMounted ==
  [gameState |-> newGameState("start"), pacmanPos |-> pacmanStart,
   ghosts |-> initialGhosts, maze |-> MAZE_LAYOUT, keys |-> {},
   timeout |-> NoTimeout, periods |-> 0]

\* ------------------------------------------------------------ component state
VARIABLES
  gameState, currentLevel, score, lives, level, highScore, bonus,
  marioHasHammer, hammerTimer,                      \* useState
  mario, barrels, fireballs, rivets, elevators,     \* useRef
  gameTime, bonusTimer,                             \* useRef
  timers,      \* pending setTimeout callbacks, oldest first (all delays are 2000 ms)
  stored,      \* localStorage item donkeyKongHighScore
  ran,         \* observer: update functions executed by the last frame callback
  lastPhase,   \* observer: the phase the last frame callback found current
  initIn,      \* observer: phase that was current when initializeLevel last ran
  deaths,      \* observer: Playing -> MarioDeath changes since startGame
  spawnAge,    \* observer: Playing ticks since a barrel / a fireball was last
               \* spawned in this level attempt, counted up to 120 / 180
  budget,      \* frame callbacks still followed
  mounted,     \* the component that is mounted: "DonkeyKong", "DonkeyKongAtari"
               \* or "Game3D"
  atari,       \* the React state of DonkeyKongAtari, with its pending timers
  game3d       \* the React state of Game3D and of its GameScene, with the
               \* pending timeout of the power mode effect

vars ==
  << gameState, currentLevel, score, lives, level, highScore, bonus,
     marioHasHammer, hammerTimer, mario, barrels, fireballs, rivets, elevators,
     gameTime, bonusTimer, timers, stored, ran, lastPhase, initIn, deaths,
     spawnAge, budget, mounted, atari, game3d >>

\* the state of DonkeyKong
fullVars ==
  << gameState, currentLevel, score, lives, level, highScore, bonus,
     marioHasHammer, hammerTimer, mario, barrels, fireballs, rivets, elevators,
     gameTime, bonusTimer, timers, stored, ran, lastPhase, initIn, deaths,
     spawnAge >>

\* the intents a frame can find held (keys.current / touchControls)
\* every key combination a tick can find held
Keys == {"left", "right", "up", "down", "jump"}

Intents == {{}, {"left"}, {"right"}, {"up"}, {"down"}, {"jump"}, {"right", "jump"}}
\* the intents followed from the state after construction
LiveIntents == {{}, {"right"}, {"jump"}}

\* React state as the latest render holds it
CurrentEnv ==
  [gameState |-> gameState, currentLevel |-> currentLevel, bonus |-> bonus,
   marioHasHammer |-> marioHasHammer]

\* React state as the first render holds it: the closure of the gameLoop that
\* the mount effect (dependency list []) hands to requestAnimationFrame, and
\* that re-requests itself
MountEnv ==
  [gameState |-> TITLE_SCREEN, currentLevel |-> GIRDERS, bonus |-> 5000,
   marioHasHammer |-> FALSE]

\* no hazard spawned yet in this level attempt
NoSpawn == [barrel |-> 120, fireball |-> 180]

\* spawnAge after a frame callback of closure env
aged(env) ==
  IF env.gameState # PLAYING THEN spawnAge
  ELSE [barrel |-> IF throwsBarrel(env.currentLevel, gameTime + 1, barrels) THEN 0
                   ELSE Min(120, spawnAge.barrel + 1),
        fireball |-> IF spawnsFireball(env.currentLevel, gameTime + 1, fireballs) THEN 0
                     ELSE Min(180, spawnAge.fireball + 1)]

World ==
  [mario |-> mario, barrels |-> barrels, fireballs |-> fireballs, rivets |-> rivets,
   elevators |-> elevators, bonusTimer |-> bonusTimer, gameState |-> gameState,
   score |-> score, bonus |-> bonus, marioHasHammer |-> marioHasHammer,
   hammerTimer |-> hammerTimer, ran |-> << >>]

\* DonkeyKongAtari after construction (no item atari-dk-highscore stored)
atariMounted ==
  [gameState |-> "title", score |-> 0, lives |-> 3, level |-> 1, highScore |-> 0,
   stored |-> NoItem, mario |-> atariStartMario, barrels |-> << >>,
   fireballs |-> << >>, hammer |-> noHammer, bonus |-> 5000, timers |-> << >>]

\* DonkeyKong after construction
fullMounted ==
  /\ gameState = TITLE_SCREEN
  /\ currentLevel = GIRDERS
  /\ score = 0
  /\ lives = 3
  /\ level = 1
  /\ highScore = loadHighScore(NoItem)
  /\ bonus = 5000
  /\ marioHasHammer = FALSE
  /\ hammerTimer = 0
  /\ mario = startMario
  /\ barrels = << >>
  /\ fireballs = << >>
  /\ rivets = << >>
  /\ elevators = << >>
  /\ gameTime = 0
  /\ bonusTimer = 0
  /\ timers = << >>
  /\ stored = NoItem
  /\ ran = << >>
  /\ lastPhase = TITLE_SCREEN
  /\ initIn = "never"
  /\ deaths = 0
  /\ spawnAge = NoSpawn

Init ==
  /\ fullMounted
  /\ budget = MaxFrames
  /\ mounted = "DonkeyKong"
  /\ atari = atariMounted /\ game3d = game3dMounted

\* what initializeLevel() writes: the refs and the React state of the level
LevelState ==
  [barrels |-> barrels, fireballs |-> fireballs, elevators |-> elevators,
   marioHasHammer |-> marioHasHammer, hammerTimer |-> hammerTimer, bonus |-> bonus,
   bonusTimer |-> bonusTimer, rivets |-> rivets, mario |-> mario]

\* initializeLevel() that leaves the barrels rolling
levelInitializedKeeping(w, lv) ==
  [w EXCEPT !.fireballs = << >>,
            !.elevators = IF lv = ELEVATOR THEN seededElevators ELSE << >>,
            !.marioHasHammer = FALSE, !.hammerTimer = 0, !.bonus = 5000,
            !.bonusTimer = 0,
            !.rivets = IF lv = RIVET THEN seededRivets ELSE @,
            !.mario = startMario]

\* initializeLevel() of a closure whose currentLevel is lv, as a function of
\* the level state w it is called in
levelInitialized(w, lv) ==
  [w EXCEPT !.barrels = << >>, !.fireballs = << >>,
            !.elevators = IF lv = ELEVATOR THEN seededElevators ELSE << >>,
            !.marioHasHammer = FALSE, !.hammerTimer = 0, !.bonus = 5000,
            !.bonusTimer = 0,
            !.rivets = IF lv = RIVET THEN seededRivets ELSE @,
            !.mario = startMario]

\* initializeLevel() of a closure whose currentLevel is lv
initializeLevel(lv) ==
  /\ barrels' = << >>
  /\ fireballs' = << >>
  /\ elevators' = IF lv = ELEVATOR THEN seededElevators ELSE << >>
  /\ marioHasHammer' = FALSE
  /\ hammerTimer' = 0
  /\ bonus' = 5000
  /\ bonusTimer' = 0
  /\ rivets' = IF lv = RIVET THEN seededRivets ELSE rivets
  /\ mario' = startMario

\* setTimeout(() => { setGameState(LEVEL_INTRO); setTimeout(..., 2000) }, 2000)
IntroTimer(lv) == [kind |-> "intro", lv |-> lv]
\* setTimeout(() => { setGameState(PLAYING); initializeLevel() }, 2000)
PlayTimer(lv) == [kind |-> "play", lv |-> lv]

startGame ==
  /\ gameState' = HOW_HIGH_SCREEN
  /\ timers' = Append(timers, IntroTimer(currentLevel))
  /\ score' = 0
  /\ lives' = 3
  /\ level' = 1
  /\ currentLevel' = GIRDERS
  /\ mario' = startMario
  /\ deaths' = 0
  /\ UNCHANGED << highScore, bonus, marioHasHammer, hammerTimer, barrels, fireballs,
                  rivets, elevators, gameTime, bonusTimer, stored, ran, lastPhase,
                  initIn, budget, mounted,
                  atari, game3d, spawnAge >>

skipHowHigh ==
  /\ gameState' = LEVEL_INTRO
  /\ timers' = Append(timers, PlayTimer(currentLevel))
  /\ UNCHANGED << currentLevel, score, lives, level, highScore, bonus, marioHasHammer,
                  hammerTimer, mario, barrels, fireballs, rivets, elevators, gameTime,
                  bonusTimer, stored, ran, lastPhase, initIn, deaths, budget, mounted,
                  atari, game3d, spawnAge >>

acknowledgeDeath ==
  /\ IF lives > 1
     THEN /\ lives' = lives - 1
          /\ mario' = startMario
          /\ gameState' = PLAYING
     ELSE /\ gameState' = GAME_OVER
          /\ UNCHANGED << lives, mario >>
  /\ UNCHANGED << currentLevel, score, level, highScore, bonus, marioHasHammer,
                  hammerTimer, barrels, fireballs, rivets, elevators, gameTime,
                  bonusTimer, timers, stored, ran, lastPhase, initIn, deaths, budget, mounted,
                  atari, game3d, spawnAge >>

\* nextLevel() that pays the same 1000 points on every level
nextLevelFlat ==
  /\ level' = level + 1
  /\ score' = score + 1000
  /\ currentLevel' = (currentLevel + 1) % 4
  /\ gameState' = LEVEL_INTRO
  /\ timers' = Append(timers, PlayTimer(currentLevel))
  /\ UNCHANGED << lives, highScore, bonus, marioHasHammer, hammerTimer, mario, barrels,
                  fireballs, rivets, elevators, gameTime, bonusTimer, stored, ran,
                  lastPhase, initIn, deaths, budget, mounted,
                  atari, game3d, spawnAge >>

nextLevel ==
  /\ level' = level + 1
  /\ score' = score + 1000 * level
  /\ currentLevel' = (currentLevel + 1) % 4
  /\ gameState' = LEVEL_INTRO
  /\ timers' = Append(timers, PlayTimer(currentLevel))
  /\ UNCHANGED << lives, highScore, bonus, marioHasHammer, hammerTimer, mario, barrels,
                  fireballs, rivets, elevators, gameTime, bonusTimer, stored, ran,
                  lastPhase, initIn, deaths, budget, mounted,
                  atari, game3d, spawnAge >>

\* resetGame() that takes the final score as the high score whatever it was
resetGameForgetful ==
  /\ highScore' = score
  /\ stored' = Digits(score)
  /\ gameState' = TITLE_SCREEN
  /\ currentLevel' = GIRDERS
  /\ mario' = startMario
  /\ barrels' = << >>
  /\ fireballs' = << >>
  /\ UNCHANGED << score, lives, level, bonus, marioHasHammer, hammerTimer, rivets,
                  elevators, gameTime, bonusTimer, timers, ran, lastPhase, initIn,
                  deaths, budget, mounted,
                  atari, game3d, spawnAge >>

resetGame ==
  /\ IF Greater(score, highScore)
     THEN highScore' = score /\ stored' = Digits(score)
     ELSE UNCHANGED << highScore, stored >>
  /\ gameState' = TITLE_SCREEN
  /\ currentLevel' = GIRDERS
  /\ mario' = startMario
  /\ barrels' = << >>
  /\ fireballs' = << >>
  /\ UNCHANGED << score, lives, level, bonus, marioHasHammer, hammerTimer, rivets,
                  elevators, gameTime, bonusTimer, timers, ran, lastPhase, initIn,
                  deaths, budget, mounted,
                  atari, game3d, spawnAge >>

\* onClick of the canvas: the handler of the latest render (switch (gameState))
handleCanvasClick ==
  /\ mounted = "DonkeyKong"
  /\ CASE gameState = TITLE_SCREEN -> Len(timers) < MaxTimers /\ startGame
       [] gameState = HOW_HIGH_SCREEN -> Len(timers) < MaxTimers /\ skipHowHigh
       [] gameState = MARIO_DEATH -> acknowledgeDeath
       [] gameState \in {LEVEL_COMPLETE, INTERLUDE} ->
            Len(timers) < MaxTimers /\ level < MaxLevel /\ nextLevel
       [] gameState = GAME_OVER -> resetGame
       [] OTHER -> FALSE

\* the oldest pending timer callback runs
TimerFires ==
  /\ mounted = "DonkeyKong"
  /\ timers # << >>
  /\ LET t == Head(timers) IN
       IF t.kind = "intro"
       THEN /\ gameState' = LEVEL_INTRO
            /\ timers' = Append(Tail(timers), PlayTimer(t.lv))
            /\ UNCHANGED << currentLevel, score, lives, level, highScore, bonus,
                            marioHasHammer, hammerTimer, mario, barrels, fireballs,
                            rivets, elevators, gameTime, bonusTimer, stored, ran,
                            lastPhase, initIn, deaths, budget, mounted,
                  atari, game3d, spawnAge >>
       ELSE /\ gameState' = PLAYING
            /\ initializeLevel(t.lv)
            /\ initIn' = gameState
            /\ spawnAge' = NoSpawn
            /\ timers' = Tail(timers)
            /\ UNCHANGED << currentLevel, score, lives, level, highScore, gameTime,
                            stored, ran, lastPhase, deaths, budget, mounted,
                  atari, game3d >>

\* the refs and the pending React state as a frame callback leaves them
frameDone(w) ==
  /\ mario' = w.mario
  /\ barrels' = w.barrels
  /\ fireballs' = w.fireballs
  /\ rivets' = w.rivets
  /\ elevators' = w.elevators
  /\ bonusTimer' = w.bonusTimer
  /\ gameState' = w.gameState
  /\ score' = w.score
  /\ bonus' = w.bonus
  /\ marioHasHammer' = w.marioHasHammer
  /\ hammerTimer' = w.hammerTimer
  /\ ran' = w.ran
  /\ deaths' = IF gameState = PLAYING /\ w.gameState = MARIO_DEATH
               THEN deaths + 1 ELSE deaths

\* the inputs a frame of closure env can tell apart: the intents held, the
\* barrels whose ladder draw decides something, the fireball's drawn direction
FrameIntents(env, K) == IF env.gameState = PLAYING THEN K ELSE {{}}

FrameDraws(env) ==
  IF env.gameState = PLAYING
  THEN SUBSET {i \in 1..Len(barrels) :
                 barrelMotion(barrels[i], TRUE, env.currentLevel)
                   # barrelMotion(barrels[i], FALSE, env.currentLevel)}
  ELSE {{}}

FrameDirs(env) ==
  IF env.gameState = PLAYING /\ env.currentLevel = RIVET THEN {U, 0 - U} ELSE {U}

\* one animation-frame callback: gameLoop of the render whose state is env,
\* with the held intents drawn from K
gameLoop(env, K) ==
  /\ mounted = "DonkeyKong"
  /\ budget > 0
  /\ budget' = budget - 1
  /\ gameTime' = gameTime + 1
  /\ \E k \in FrameIntents(env, K), D \in FrameDraws(env), fvx \in FrameDirs(env) :
       frameDone(gameLoopBody(World, env, gameTime + 1, k, D, fvx))
  /\ lastPhase' = gameState
  /\ spawnAge' = aged(env)
  /\ UNCHANGED << currentLevel, lives, level, highScore, timers, stored, initIn,
                  mounted, atari, game3d >>

\* The component as written: the frame callback is the first render's gameLoop.
Frame == gameLoop(MountEnv, LiveIntents)

Next == handleCanvasClick \/ TimerFires \/ Frame

Spec == Init /\ [][Next]_vars

\* The component with the frame callback of the latest render (what the mount
\* effect would run if it were re-subscribed on every render): the Playing
\* updates then run, with the state of the render before the frame.
FrameLive == gameLoop(CurrentEnv, LiveIntents)

NextLive == handleCanvasClick \/ TimerFires \/ FrameLive

SpecLive == Init /\ [][NextLive]_vars

\* ------------------------------------------------------------ DonkeyKongAtari actions
\* the random draws a frame can tell apart
atariSpawns(list) == IF Len(list) < MaxHazards THEN BOOLEAN ELSE {FALSE}

atariFireSpawns(list) ==
  IF Len(list) < MaxHazards THEN {"no", "left", "right"} ELSE {"no"}

atariDrawers(list) ==
  {i \in 1..Len(list) : atariMoveBarrel(list[i], TRUE, 0) # atariMoveBarrel(list[i], FALSE, 0)}

atariDrawsOf(f) ==
  IF ~f.active THEN {"roll"}
  ELSE IF f.climbing THEN {"up", "down", "upStop", "downStop"}
  ELSE IF atariMoveFireball(f, "climb", 0) # atariMoveFireball(f, "roll", 0)
  THEN {"roll", "climb"}
  ELSE {"roll"}

RECURSIVE atariDrawSeqs(_)
\* the sequences of draws of the fireballs of list
atariDrawSeqs(list) ==
  IF list = << >> THEN {<< >>}
  ELSE {<< d >> \o rest : d \in atariDrawsOf(Head(list)), rest \in atariDrawSeqs(Tail(list))}

atariFireDraws(list, spawn) ==
  IF spawn = "no" THEN atariDrawSeqs(list)
  ELSE {Append(fd, "roll") : fd \in atariDrawSeqs(list)}

\* one animation frame of the loop effect (subscribed only while playing)
atariFrame ==
  /\ mounted = "DonkeyKongAtari"
  /\ atari.gameState = "playing"
  /\ budget > 0
  /\ budget' = budget - 1
  /\ \E spawnF \in atariFireSpawns(atari.fireballs) :
       \E fd \in atariFireDraws(atari.fireballs, spawnF),
          D \in SUBSET atariDrawers(atari.barrels),
          spawnB \in atariSpawns(atari.barrels), k \in Intents :
         atari' = atariGameLoop(atari, k, spawnB, D, spawnF, fd)
  /\ UNCHANGED << fullVars, mounted, game3d >>

\* the start/restart effect finds the jump key held in title or gameOver
atariStart ==
  /\ mounted = "DonkeyKongAtari"
  /\ atari.gameState \in {"title", "gameOver"}
  /\ atari' = atariStartGame(atari)
  /\ UNCHANGED << fullVars, budget, mounted, game3d >>

\* the oldest pending setTimeout(nextLevel, 2000) runs
atariTimerFires ==
  /\ mounted = "DonkeyKongAtari"
  /\ atari.timers # << >>
  /\ atari.level < MaxLevel
  /\ atari' = [atariNextLevel(atari, Head(atari.timers).bonus)
                 EXCEPT !.timers = Tail(atari.timers)]
  /\ UNCHANGED << fullVars, budget, mounted, game3d >>

\* ------------------------------------------------------------ mid-game situations
\* From the state after construction the first level cannot be left (Mario
\* falls from the start point), so the per-tick rules are followed from
\* situations of play set up by hand: each is a state of the refs and of the
\* React state that the update functions accept, not one the start state reaches.
BaseScene ==
  [gameState |-> PLAYING, currentLevel |-> GIRDERS, level |-> 1, score |-> 0,
   bonus |-> 5000, marioHasHammer |-> FALSE, hammerTimer |-> 0, mario |-> startMario,
   barrels |-> << >>, fireballs |-> << >>, rivets |-> << >>, elevators |-> << >>,
   gameTime |-> 0, bonusTimer |-> 0, timers |-> << >>, lives |-> 3,
   stored |-> NoItem, spawnAge |-> NoSpawn]

\* the twelfth frame of the fall from the start point
ScFalling ==
  [BaseScene EXCEPT !.mario = [x |-> 24 * U, y |-> 2554, vx |-> 0, vy |-> 36],
                    !.gameTime = 12]

\* on the top ladder of the Girders level, one pixel below the goal line
ScGoalApproach ==
  [BaseScene EXCEPT !.mario = [x |-> 108 * U, y |-> 49 * U, vx |-> 0, vy |-> 0 - U]]

\* the same with a barrel as it is 36 frames after it was thrown: rolled off
\* the platform at y = 72 and falling past the top ladder
ScGoalBarrel ==
  [ScGoalApproach EXCEPT
     !.barrels = << [x |-> 920, y |-> 610, vx |-> U, vy |-> 15, onLadder |-> FALSE] >>]

\* the Girders level just completed
ScLevelWon ==
  [BaseScene EXCEPT !.gameState = LEVEL_COMPLETE, !.score = 5000,
                    !.mario = [x |-> 108 * U, y |-> 48 * U, vx |-> 0, vy |-> 0 - U]]

\* standing on the platform at y = 168 with a barrel rolling in from the left
ScBarrelHit ==
  [BaseScene EXCEPT
     !.mario = [x |-> 40 * U, y |-> 152 * U, vx |-> 0, vy |-> 0],
     !.barrels = << [x |-> 23 * U, y |-> 154 * U, vx |-> U, vy |-> 0, onLadder |-> FALSE] >>]

\* the same holding the hammer
ScHammerBarrel == [ScBarrelHit EXCEPT !.marioHasHammer = TRUE, !.hammerTimer = 200]

\* the Rivets level with a fireball next to Mario
ScFireballHit ==
  [BaseScene EXCEPT
     !.currentLevel = RIVET, !.level = 2, !.rivets = seededRivets,
     !.mario = [x |-> 100 * U, y |-> 152 * U, vx |-> 0, vy |-> 0],
     !.fireballs = << [x |-> 94 * U, y |-> 160 * U, vx |-> U, vy |-> 0] >>]

\* the Elevators level as initializeLevel leaves it
ScElevators ==
  [BaseScene EXCEPT !.currentLevel = ELEVATOR, !.level = 3,
                    !.elevators = seededElevators]

\* the Conveyors level (the fourth) just completed
ScConveyorWon ==
  [ScLevelWon EXCEPT !.currentLevel = CONVEYOR, !.level = 4, !.score = 11000]

\* standing on the platform at y = 168 in the second minute of the level, the
\* hammer held and a barrel near, while the "set Playing and initializeLevel"
\* callback of a second timer chain is still pending
ScStaleTimer ==
  [ScHammerBarrel EXCEPT !.bonus = 4900, !.bonusTimer = 30, !.gameTime = 90,
                         !.timers = << PlayTimer(GIRDERS) >>]

\* standing on the platform at y = 168 with the bonus used up, two ticks
\* before updateBonus lowers it again
ScBonusSpent ==
  [BaseScene EXCEPT !.mario = [x |-> 40 * U, y |-> 152 * U, vx |-> 0, vy |-> 0],
                    !.bonus = 0, !.bonusTimer = 58, !.gameTime = 58]

\* the game lost on the last life with sc points, the item donkeyKongHighScore
\* as it was found when the component mounted
ScGameOver(sc, item) ==
  [ScBarrelHit EXCEPT !.gameState = GAME_OVER, !.lives = 1, !.score = sc,
                      !.stored = item]

\* what localStorage can hold when a component mounts
StartupItems == {NoItem, Digits(9000), Letters}

GameOverScenes == {ScGameOver(sc, item) : sc \in {5300, 9100}, item \in StartupItems}

\* the Rivets level with only the rivet at (8, 168) left, Mario in the eighth
\* frame after he stepped off the ladder at x = 32 to the left, from y = 172
\* while climbing up: one step to the left of the rivet and falling past the
\* platform at y = 168
ScLastRivet ==
  [BaseScene EXCEPT
     !.currentLevel = RIVET, !.level = 2, !.score = 500, !.gameTime = 8,
     !.bonusTimer = 8,
     !.rivets = [i \in 1..6 |-> [seededRivets[i] EXCEPT !.removed = (i # 1)]],
     !.mario = [x |-> 16 * U, y |-> 1724, vx |-> 0 - U, vy |-> 11]]

\* the game lost on the Rivets level (the second) with 6000 points, while the
\* "set Playing and initializeLevel" callback of a second timer chain is still
\* pending
ScLostOnRivets ==
  [ScFireballHit EXCEPT !.gameState = GAME_OVER, !.lives = 1, !.score = 6000,
                        !.timers = << PlayTimer(GIRDERS) >>]

Scenes ==
  {BaseScene, ScFalling, ScGoalApproach, ScGoalBarrel, ScLevelWon, ScBarrelHit,
   ScHammerBarrel, ScFireballHit, ScElevators, ScConveyorWon, ScStaleTimer,
   ScBonusSpent, ScLastRivet, ScLostOnRivets} \cup GameOverScenes

\* DonkeyKongAtari: on the platform at y = 180 holding the hammer, next to the
\* ladder at x = 240 that a barrel of level 1 is descending
AScHammerBarrel ==
  [atariMounted EXCEPT
     !.gameState = "playing", !.hammer = [present |-> TRUE, active |-> FALSE],
     !.bonus = 4000,
     !.mario = [atariStartMario EXCEPT !.x = 230 * U, !.y = 164 * U,
                                       !.hasHammer = TRUE, !.hammerTimer = 240],
     !.barrels = << [atariNewBarrel(1, 1) EXCEPT !.x = 240 * U, !.y = 1508,
                                                 !.onLadder = TRUE] >>]

\* the same without the hammer
AScBarrelHit ==
  [AScHammerBarrel EXCEPT !.hammer = freshHammer, !.mario.hasHammer = FALSE,
                          !.mario.hammerTimer = 0]

\* on the bottom platform holding the hammer, a fireball rolling in
AScHammerFireball ==
  [atariMounted EXCEPT
     !.gameState = "playing", !.hammer = [present |-> TRUE, active |-> FALSE],
     !.bonus = 4000,
     !.mario = [atariStartMario EXCEPT !.x = 150 * U, !.y = 204 * U,
                                       !.hasHammer = TRUE, !.hammerTimer = 100],
     !.fireballs = << [atariNewFireball(1, 1, 1) EXCEPT !.x = 1636] >>]

\* on the top platform, two pixels left of the goal
AScGoal ==
  [atariMounted EXCEPT
     !.gameState = "playing", !.hammer = freshHammer, !.bonus = 3000,
     !.mario = [atariStartMario EXCEPT !.x = 280 * U, !.y = 44 * U]]

\* at the start point with one point of bonus left
AScBonusLast == [atariMounted EXCEPT !.gameState = "playing", !.hammer = freshHammer,
                                     !.bonus = 1]

\* next to the descending barrel on the last life with 2300 points, the item
\* atari-dk-highscore as it was found when the component mounted
AScLastLife(item) ==
  [AScBarrelHit EXCEPT !.lives = 1, !.score = 2300, !.stored = item,
                       !.highScore = atariLoadHighScore(item)]

\* on the bottom platform on the last life, two fireballs that were spawned in
\* consecutive frames rolling in together
AScTwoFireballs ==
  [atariMounted EXCEPT
     !.gameState = "playing", !.hammer = freshHammer, !.bonus = 4000, !.lives = 1,
     !.mario = [atariStartMario EXCEPT !.x = 150 * U, !.y = 204 * U],
     !.fireballs = << [atariNewFireball(1, 1, 0 - 1) EXCEPT !.x = 1630],
                      [atariNewFireball(1, 2, 0 - 1) EXCEPT !.x = 1636] >>]

AtariScenes ==
  {atariMounted, AScHammerBarrel, AScBarrelHit, AScHammerFireball, AScGoal,
   AScBonusLast, AScTwoFireballs} \cup {AScLastLife(item) : item \in StartupItems}

\* DonkeyKong in the situation s
InitFullAt(s) ==
    /\ gameState = s.gameState
    /\ currentLevel = s.currentLevel
    /\ score = s.score
    /\ lives = s.lives
    /\ level = s.level
    /\ highScore = loadHighScore(s.stored)
    /\ bonus = s.bonus
    /\ marioHasHammer = s.marioHasHammer
    /\ hammerTimer = s.hammerTimer
    /\ mario = s.mario
    /\ barrels = s.barrels
    /\ fireballs = s.fireballs
    /\ rivets = s.rivets
    /\ elevators = s.elevators
    /\ gameTime = s.gameTime
    /\ bonusTimer = s.bonusTimer
    /\ timers = s.timers
    /\ stored = s.stored
    /\ ran = << >>
    /\ lastPhase = LEVEL_INTRO
    /\ initIn = LEVEL_INTRO
    /\ deaths = 0
    /\ spawnAge = s.spawnAge

InitFullScene == \E s \in Scenes : InitFullAt(s)

InitScene ==
  /\ budget = SceneFrames
  /\ \/ mounted = "DonkeyKong" /\ InitFullScene /\ atari = atariMounted /\ game3d = game3dMounted
     \/ mounted = "DonkeyKongAtari" /\ fullMounted /\ atari \in AtariScenes
        /\ game3d = game3dMounted

FrameScene == gameLoop(CurrentEnv, Intents)

NextScene ==
  \/ handleCanvasClick
  \/ TimerFires
  \/ FrameScene
  \/ atariStart
  \/ atariTimerFires
  \/ atariFrame

SpecScene == InitScene /\ [][NextScene]_vars

\* ------------------------------------------------------------ at a hammer spot
\* The hammer's five seconds are followed over HoldFrames frames with no key
\* held, from Mario standing at a hammer spot: in DonkeyKong on the platform
\* at y = 200 under the hammer position (40, 192), with the barrels thrown and
\* rolling as drawn; in DonkeyKongAtari on the platform at y = 180 at the
\* hammer (120, 160), in frames whose Math.random() draws spawn nothing.
ScHammerSpot ==
  [BaseScene EXCEPT !.mario = [x |-> 40 * U, y |-> 184 * U, vx |-> 0, vy |-> 0]]

AScHammerSpot ==
  [atariMounted EXCEPT
     !.gameState = "playing", !.hammer = freshHammer,
     !.mario = [atariStartMario EXCEPT !.x = 120 * U, !.y = 164 * U]]

InitHold ==
  /\ budget = HoldFrames
  /\ \/ mounted = "DonkeyKong" /\ InitFullAt(ScHammerSpot) /\ atari = atariMounted /\ game3d = game3dMounted
     \/ mounted = "DonkeyKongAtari" /\ fullMounted /\ atari = AScHammerSpot
        /\ game3d = game3dMounted

FrameHold == gameLoop(CurrentEnv, {{}})

\* a frame of DonkeyKongAtari with no key held, an empty barrel list and an
\* empty fireball list, neither Math.random() draw below its threshold
atariFrameHold ==
  /\ mounted = "DonkeyKongAtari"
  /\ atari.gameState = "playing"
  /\ atari.barrels = << >>
  /\ atari.fireballs = << >>
  /\ budget > 0
  /\ budget' = budget - 1
  /\ atari' = atariGameLoop(atari, {}, FALSE, {}, "no", << >>)
  /\ UNCHANGED << fullVars, mounted, game3d >>

NextHold == FrameHold \/ atariFrameHold

SpecHold == InitHold /\ [][NextHold]_vars

\* ------------------------------------------------------------ teardown
\* the cleanup of the mount effect: the key listeners are removed and the
\* pending animation frame is cancelled; no timer is cleared
Unmount ==
  /\ mounted = "DonkeyKong"
  /\ mounted' = "unmounted"
  /\ UNCHANGED << fullVars, budget, atari, game3d >>

\* the oldest pending timer callback runs after the cleanup: its setState
\* calls are ignored by React, its setTimeout and its writes to the refs
\* (initializeLevel and resetMario) are carried out
LateTimerFires ==
  /\ mounted = "unmounted"
  /\ timers # << >>
  /\ LET t == Head(timers) IN
       IF t.kind = "intro"
       THEN /\ timers' = Append(Tail(timers), PlayTimer(t.lv))
            /\ UNCHANGED << barrels, fireballs, elevators, bonusTimer, rivets, mario,
                            initIn, spawnAge >>
       ELSE /\ timers' = Tail(timers)
            /\ barrels' = << >>
            /\ fireballs' = << >>
            /\ elevators' = IF t.lv = ELEVATOR THEN seededElevators ELSE << >>
            /\ bonusTimer' = 0
            /\ rivets' = IF t.lv = RIVET THEN seededRivets ELSE rivets
            /\ mario' = startMario
            /\ initIn' = gameState
            /\ spawnAge' = NoSpawn
  /\ UNCHANGED << gameState, currentLevel, score, lives, level, highScore, bonus,
                  marioHasHammer, hammerTimer, gameTime, stored, ran, lastPhase,
                  deaths, budget, mounted, atari, game3d >>

InitTeardown ==
  /\ budget = SceneFrames
  /\ mounted = "DonkeyKong"
  /\ atari = atariMounted /\ game3d = game3dMounted
  /\ InitFullScene

NextTeardown ==
  \/ handleCanvasClick
  \/ TimerFires
  \/ FrameScene
  \/ Unmount
  \/ LateTimerFires

SpecTeardown == InitTeardown /\ [][NextTeardown]_vars

\* ------------------------------------------------------------ a spawn is due
\* The spawn rules are followed from the frame before a multiple of 120 or 180.
\* Each situation is the state the level is in after that many frames with
\* Mario standing still out of the hazards' way: on Girders at the hammer spot
\* (40, 184) with every thrown barrel caught by the ladder at x = 88, where it
\* stays; on Rivets on the platform at y = 168 with the fireballs bouncing along
\* the bottom platform; on Elevators and Conveyors on the bottom platform.
StuckBarrel == [x |-> 80 * U, y |-> 58 * U, vx |-> 0, vy |-> 2 * U, onLadder |-> TRUE]

\* Girders after 119, 359 and 599 frames
ScBarrelsDue ==
  [ScHammerSpot EXCEPT !.gameTime = 119, !.bonus = 4900, !.bonusTimer = 59,
                       !.marioHasHammer = TRUE, !.hammerTimer = 182]

ScBarrelsTwo ==
  [ScHammerSpot EXCEPT !.gameTime = 359, !.bonus = 4500, !.bonusTimer = 59,
                       !.marioHasHammer = TRUE, !.hammerTimer = 243,
                       !.barrels = << StuckBarrel, StuckBarrel >>,
                       !.spawnAge = [barrel |-> 119, fireball |-> 180]]

ScBarrelCap ==
  [ScHammerSpot EXCEPT !.gameTime = 599, !.bonus = 4100, !.bonusTimer = 59,
                       !.marioHasHammer = TRUE, !.hammerTimer = 3,
                       !.barrels = << StuckBarrel, StuckBarrel, StuckBarrel, StuckBarrel >>,
                       !.spawnAge = [barrel |-> 119, fireball |-> 180]]

\* Rivets after 179, 359 and 539 frames
ScRivetsStanding ==
  [ScFireballHit EXCEPT !.fireballs = << >>, !.bonusTimer = 59]

ScFireballsDue == [ScRivetsStanding EXCEPT !.gameTime = 179, !.bonus = 4800]

ScFireballsOne ==
  [ScRivetsStanding EXCEPT
     !.gameTime = 359, !.bonus = 4500,
     !.fireballs = << [x |-> 2040, y |-> 2186, vx |-> U, vy |-> 0 - 14] >>,
     !.spawnAge = [barrel |-> 120, fireball |-> 179]]

ScFireballCap ==
  [ScRivetsStanding EXCEPT
     !.gameTime = 539, !.bonus = 4200,
     !.fireballs = << [x |-> 480, y |-> 2142, vx |-> 0 - U, vy |-> 0 - 6],
                      [x |-> 1560, y |-> 2186, vx |-> U, vy |-> 0 - 14] >>,
     !.spawnAge = [barrel |-> 120, fireball |-> 179]]

\* Elevators and Conveyors after 359 frames
ScLiftsDue ==
  [ScElevators EXCEPT
     !.gameTime = 359, !.bonus = 4500, !.bonusTimer = 59,
     !.mario = [x |-> 100 * U, y |-> 216 * U, vx |-> 0, vy |-> 0],
     !.elevators =
        << [x |-> 320, y |-> 1410, direction |-> 0 - 1, speed |-> 10],
           [x |-> 640, y |-> 1224, direction |-> 0 - 1, speed |-> 12],
           [x |-> 960, y |-> 1936, direction |-> 0 - 1, speed |-> 8],
           [x |-> 1280, y |-> 1871, direction |-> 0 - 1, speed |-> 11],
           [x |-> 1600, y |-> 1393, direction |-> 0 - 1, speed |-> 9],
           [x |-> 1920, y |-> 997, direction |-> 0 - 1, speed |-> 13] >>]

ScConveyorsDue ==
  [BaseScene EXCEPT !.currentLevel = CONVEYOR, !.level = 4,
                    !.gameTime = 359, !.bonus = 4500, !.bonusTimer = 59,
                    !.mario = [x |-> 100 * U, y |-> 216 * U, vx |-> 0, vy |-> 0]]

DueScenes ==
  {ScBarrelsDue, ScBarrelsTwo, ScBarrelCap, ScFireballsDue, ScFireballsOne,
   ScFireballCap, ScLiftsDue, ScConveyorsDue}

InitCap ==
  /\ budget = CapFrames
  /\ mounted = "DonkeyKong"
  /\ atari = atariMounted /\ game3d = game3dMounted
  /\ \E s \in DueScenes : InitFullAt(s)

FrameCap == gameLoop(CurrentEnv, Intents)

SpecCap == InitCap /\ [][FrameCap]_vars

\* ------------------------------------------------------------ at the screen edges
\* updateMario is followed with every combination of the five intents from
\* Mario one pixel from the left or the right screen edge: on the bottom
\* platform of each level, on the four conveyor belts that reach an edge, and
\* coming down on the rightmost elevator.
EdgeScene(lv, x, y) ==
  [BaseScene EXCEPT !.currentLevel = lv, !.level = lv + 1,
                    !.rivets = IF lv = RIVET THEN seededRivets ELSE << >>,
                    !.elevators = IF lv = ELEVATOR THEN seededElevators ELSE << >>,
                    !.mario = [x |-> x, y |-> y, vx |-> 0, vy |-> 0]]

EdgeXs == {1 * U, (CANVAS_WIDTH - MARIO_WIDTH - 1) * U}

EdgeScenes ==
  {EdgeScene(lv, x, 216 * U) : lv \in {GIRDERS, RIVET, ELEVATOR, CONVEYOR}, x \in EdgeXs}
    \cup {EdgeScene(CONVEYOR, x, y) : x \in EdgeXs, y \in {184 * U, 152 * U}}
    \cup {EdgeScene(ELEVATOR, (CANVAS_WIDTH - MARIO_WIDTH - 1) * U,
                    seededElevators[6].y - 15 * U)}

atariEdgeScenes ==
  {[atariMounted EXCEPT !.gameState = "playing", !.hammer = freshHammer,
                        !.mario.x = x] : x \in {1 * U, 303 * U}}

InitWalk ==
  /\ budget = WalkFrames
  /\ \/ mounted = "DonkeyKong" /\ atari = atariMounted /\ game3d = game3dMounted
        /\ \E s \in EdgeScenes : InitFullAt(s)
     \/ mounted = "DonkeyKongAtari" /\ fullMounted /\ atari \in atariEdgeScenes
        /\ game3d = game3dMounted

FrameWalk == gameLoop(CurrentEnv, SUBSET Keys)

\* a frame of DonkeyKongAtari with any keys held, an empty barrel list and an
\* empty fireball list, neither Math.random() draw below its threshold
atariFrameWalk ==
  /\ mounted = "DonkeyKongAtari"
  /\ atari.gameState = "playing"
  /\ atari.barrels = << >>
  /\ atari.fireballs = << >>
  /\ budget > 0
  /\ budget' = budget - 1
  /\ \E k \in SUBSET Keys : atari' = atariGameLoop(atari, k, FALSE, {}, "no", << >>)
  /\ UNCHANGED << fullVars, mounted, game3d >>

NextWalk == FrameWalk \/ atariFrameWalk

SpecWalk == InitWalk /\ [][NextWalk]_vars

\* ------------------------------------------------------------ a death at a spawn
\* The level was entered 12 frames before a multiple of 120 (Girders) or of 180
\* (Rivets): Mario is in the twelfth frame of his fall from the start point
\* and leaves the screen in the tick that spawns.  No key is held; the clicks
\* acknowledge the deaths.
ScFallingAtThrow == [ScFalling EXCEPT !.gameTime = 119, !.bonusTimer = 12]

ScFallingAtFire ==
  [ScFalling EXCEPT !.currentLevel = RIVET, !.level = 2, !.rivets = seededRivets,
                    !.gameTime = 179, !.bonusTimer = 12]

InitRespawn ==
  /\ budget = RespawnFrames
  /\ mounted = "DonkeyKong"
  /\ atari = atariMounted /\ game3d = game3dMounted
  /\ \E s \in {ScFallingAtThrow, ScFallingAtFire} : InitFullAt(s)

NextRespawn == FrameHold \/ handleCanvasClick

SpecRespawn == InitRespawn /\ [][NextRespawn]_vars

\* ------------------------------------------------------------ the elevators
\* The Elevators level as initializeLevel leaves it, Mario standing on the
\* bottom platform with no key held.
ScLiftsStanding ==
  [ScElevators EXCEPT !.mario = [x |-> 100 * U, y |-> 216 * U, vx |-> 0, vy |-> 0]]

InitLift ==
  /\ budget = LiftFrames
  /\ mounted = "DonkeyKong"
  /\ atari = atariMounted /\ game3d = game3dMounted
  /\ InitFullAt(ScLiftsStanding)

SpecLift == InitLift /\ [][FrameHold]_vars

\* ------------------------------------------------------------ spawns in a row
\* DonkeyKongAtari from its state after construction: the game is started and
\* frames follow with no key held, in each of which either Math.random() draw
\* of the spawn tests may come out below its threshold.
InitSwarm ==
  /\ budget = SwarmFrames
  /\ mounted = "DonkeyKongAtari"
  /\ fullMounted
  /\ atari = atariMounted /\ game3d = game3dMounted

atariFrameSwarm ==
  /\ mounted = "DonkeyKongAtari"
  /\ atari.gameState = "playing"
  /\ budget > 0
  /\ budget' = budget - 1
  /\ \E spawnB \in BOOLEAN, spawnF \in {"no", "left", "right"} :
       \E fd \in atariFireDraws(atari.fireballs, spawnF),
          D \in SUBSET atariDrawers(atari.barrels) :
         atari' = atariGameLoop(atari, {}, spawnB, D, spawnF, fd)
  /\ UNCHANGED << fullVars, mounted, game3d >>

NextSwarm == atariStart \/ atariFrameSwarm

SpecSwarm == InitSwarm /\ [][NextSwarm]_vars

\* ------------------------------------------------------------ ticks for ever
\* The Girders level with Playing ticks that never end: Mario stands on the
\* platform at y = 168 out of the barrels' way, no key held, the bonus used
\* up.  Of the 2% ladder draws only that of a barrel moving within reach of the
\* ladder at x = 88 (its first chance) may come out true.
FirstChance ==
  {i \in 1..Len(barrels) :
     /\ barrels[i].x = 79 * U
     /\ barrels[i].vx = U
     /\ barrelMotion(barrels[i], TRUE, GIRDERS) # barrelMotion(barrels[i], FALSE, GIRDERS)}

InitForever ==
  /\ budget = 0
  /\ mounted = "DonkeyKong"
  /\ atari = atariMounted /\ game3d = game3dMounted
  /\ InitFullAt(ScBonusSpent)

\* one animation-frame callback of the latest render
gameLoopForever ==
  /\ mounted = "DonkeyKong"
  /\ gameTime' = (gameTime + 1) % TimeWrap
  /\ \E D \in SUBSET FirstChance :
       frameDone(gameLoopBody(World, CurrentEnv, gameTime + 1, {}, D, U))
  /\ lastPhase' = gameState
  /\ spawnAge' = aged(CurrentEnv)
  /\ UNCHANGED << currentLevel, lives, level, highScore, timers, stored, initIn,
                  budget, mounted, atari, game3d >>

\* the frame counter moves on: what every frame callback does first
FrameCounted == mounted = "DonkeyKong" /\ gameTime' = (gameTime + 1) % TimeWrap

\* requestAnimationFrame keeps calling the frame callback
SpecForever ==
  InitForever /\ [][gameLoopForever]_vars /\ WF_gameTime(FrameCounted)


\* ------------------------------------------------------------ Game3D actions
\* the keys followed: one for each direction, a letter or an arrow
MoveKeys == {"w", "a", "arrowdown", "d"}

\* the draws of one ghost that a frame can tell apart when no Math.random()
\* comes out below 0.01: the new direction of a ghost that is blocked
wallDraws(maze, ghost) ==
  IF ghostBlocked(maze, ghost) THEN {[turn |-> FALSE, dir |-> d] : d \in 1..4}
  ELSE {[turn |-> FALSE, dir |-> 1]}

RECURSIVE ghostDraws(_, _)
ghostDraws(maze, ghosts) ==
  IF ghosts = << >> THEN {<< >>}
  ELSE {<< d >> \o rest : d \in wallDraws(maze, Head(ghosts)),
                          rest \in ghostDraws(maze, Tail(ghosts))}

\* one frame of the render loop while playing
game3dFrame ==
  /\ mounted = "Game3D"
  /\ game3d.gameState.gameStatus = "playing"
  /\ budget > 0
  /\ budget' = budget - 1
  /\ \E draws \in ghostDraws(game3d.maze, game3d.ghosts) :
       game3d' = useFrame(game3d, draws)
  /\ UNCHANGED << fullVars, mounted, atari >>

\* the click on START GAME
game3dStart ==
  /\ mounted = "Game3D"
  /\ game3d.gameState.gameStatus = "start"
  /\ game3d' = game3dStartGame(game3d)
  /\ UNCHANGED << fullVars, budget, mounted, atari >>

\* the click on PLAY AGAIN
game3dRestart ==
  /\ mounted = "Game3D"
  /\ game3d.gameState.gameStatus = "gameOver"
  /\ game3d' = game3dRestartGame(game3d)
  /\ UNCHANGED << fullVars, budget, mounted, atari >>

game3dKeyDown ==
  /\ mounted = "Game3D"
  /\ \E key \in MoveKeys \ game3d.keys : game3d' = handleKeyDown(game3d, key)
  /\ UNCHANGED << fullVars, budget, mounted, atari >>

game3dKeyUp ==
  /\ mounted = "Game3D"
  /\ \E key \in game3d.keys : game3d' = handleKeyUp(game3d, key)
  /\ UNCHANGED << fullVars, budget, mounted, atari >>

\* the pending timeout of the power mode effect runs, a second after it was set
game3dTimeout ==
  /\ mounted = "Game3D"
  /\ game3d.timeout # NoTimeout
  /\ game3d' = powerModeTimeout(game3d)
  /\ UNCHANGED << fullVars, budget, mounted, atari >>

\* Game3D from its state after construction, MazeFrames frames followed
InitMaze ==
  /\ budget = MazeFrames
  /\ mounted = "Game3D"
  /\ fullMounted
  /\ atari = atariMounted
  /\ game3d = game3dMounted

NextMaze == game3dStart \/ game3dKeyDown \/ game3dKeyUp \/ game3dFrame

SpecMaze == InitMaze /\ [][NextMaze]_vars

\* ------------------------------------------------------------ Game3D in the corridors
\* From the state after construction Pac-Man never leaves the wall cell he
\* starts in, so the collection of dots and pellets, the ghost collisions and
\* the power mode are followed from situations set up by hand, in which
\* Pac-Man is in the corridor z = 3 or next to the pellet at (1, 2).

\* the maze with the cells (x, z) of eaten emptied
mazeWithout(eaten) ==
  [z \in 1..MAZE_SIZE |->
     [x \in 1..MAZE_SIZE |->
        IF << x - 1, z - 1 >> \in eaten THEN 0 ELSE MAZE_LAYOUT[z][x]]]

\* the pellet at (1, 2) and the dots of the corridor z = 3 up to x = 5
EatenToFive == {<< 1, 2 >>} \cup {<< x, 3 >> : x \in 1..5}

\* in the power mode for three seconds with 100 points, walking right at
\* (5.45, 3): the next step enters the cell of the dot (6, 3), and the red
\* ghost, coming the other way, has just come within the distance
PScDotAndGhost ==
  [game3dMounted EXCEPT
     !.gameState = [score |-> 100, lives |-> 3, gameStatus |-> "playing",
                    powerMode |-> TRUE, powerModeTimer |-> 7],
     !.timeout = 7, !.periods = 3,
     !.pacmanPos = [x |-> 545, z |-> 3 * H],
     !.keys = {"d"},
     !.maze = mazeWithout(EatenToFive),
     !.ghosts[1] = [pos |-> [x |-> 594, z |-> 3 * H], direction |-> directions[2]]]

\* the same with the pink ghost behind the red one
PScTwoGhosts ==
  [PScDotAndGhost EXCEPT
     !.ghosts[2] = [pos |-> [x |-> 591, z |-> 3 * H], direction |-> directions[2]]]

\* the same without the power mode, the pellet still in place, on the last life
PScDotAndLoss ==
  [PScDotAndGhost EXCEPT
     !.gameState = [score |-> 50, lives |-> 1, gameStatus |-> "playing",
                    powerMode |-> FALSE, powerModeTimer |-> 0],
     !.timeout = NoTimeout, !.periods = 0,
     !.maze = mazeWithout(EatenToFive \ {<< 1, 2 >>})]

\* walking up from the cell (1, 3), whose dot is eaten, at (1, 2.5): the next
\* step enters the cell of the pellet (1, 2)
PScAtPellet ==
  [game3dMounted EXCEPT
     !.gameState = [score |-> 10, lives |-> 3, gameStatus |-> "playing",
                    powerMode |-> FALSE, powerModeTimer |-> 0],
     !.pacmanPos = [x |-> 1 * H, z |-> 250],
     !.keys = {"w"},
     !.maze = mazeWithout({<< 1, 3 >>})]

PacScenes == {PScDotAndGhost, PScTwoGhosts, PScDotAndLoss, PScAtPellet}

InitPower ==
  /\ budget = PowerFrames
  /\ mounted = "Game3D"
  /\ fullMounted
  /\ atari = atariMounted
  /\ game3d \in PacScenes

NextPower ==
  \/ game3dFrame
  \/ game3dTimeout
  \/ game3dKeyDown
  \/ game3dKeyUp
  \/ game3dRestart
  \/ game3dStart

SpecPower == InitPower /\ [][NextPower]_vars

\* ------------------------------------------------------------ claims
PlayingUpdates ==
  << "updateMario", "updateBarrels", "updateFireballs", "updateElevators",
     "updateRivets", "updateBonus" >>

\* C1: a frame callback that runs while the current phase is Playing executes
\* updateMario, updateBarrels, updateFireballs, updateElevators, updateRivets
\* and updateBonus in that order, and a callback that runs in any other phase
\* executes none of them (lastPhase is the phase the last callback found
\* current, ran what it executed).
C1_FrameRunsUpdatesOfCurrentPhase ==
  /\ lastPhase = PLAYING /\ gameTime > 0 => ran = PlayingUpdates
  /\ lastPhase # PLAYING => ran = << >>

AllowedEdges ==
  { << TITLE_SCREEN, HOW_HIGH_SCREEN >>, << HOW_HIGH_SCREEN, LEVEL_INTRO >>,
    << LEVEL_INTRO, PLAYING >>, << PLAYING, MARIO_DEATH >>,
    << PLAYING, LEVEL_COMPLETE >>, << PLAYING, INTERLUDE >>,
    << MARIO_DEATH, PLAYING >>, << MARIO_DEATH, GAME_OVER >>,
    << LEVEL_COMPLETE, LEVEL_INTRO >>, << INTERLUDE, LEVEL_INTRO >>,
    << GAME_OVER, TITLE_SCREEN >> }

C3_DeferredStepNeverRaces ==
  /\ initIn \in {"never", LEVEL_INTRO}
  /\ Len(timers) <= 1

PlayingTick == gameState = PLAYING /\ gameTime' = gameTime + 1

GirderStep(m, k) == marioPhysics(m, GIRDERS, << >>, k)

\* Mario has neither fallen off the screen nor reached the goal
InPlay(m) == ~(m.y > CANVAS_HEIGHT * U) /\ ~Goal(m)

RECURSIVE SpawnReach(_, _)
\* the Mario states that sequences of key combinations reach from the states
\* of frontier, added to seen; a Mario no longer in play is not moved further
SpawnGrow(seen, next) == SpawnReach(seen \cup next, next)

SpawnReach(seen, frontier) ==
  IF frontier = {} THEN seen
  ELSE SpawnGrow(seen,
         {GirderStep(m, k) : m \in {f \in frontier : InPlay(f)}, k \in SUBSET Keys}
           \ seen)

\* C5: on the Girders level some sequence of per-tick key combinations takes
\* Mario from the start point (24, 232) to the goal (y <= 48, 56 <= x <= 168),
\* where the win check then sets LevelComplete and adds the bonus.
C5_GoalReachableFromSpawn ==
  /\ gameState \in GameStates
  /\ \E m \in SpawnReach({startMario}, {startMario}) :
       /\ Goal(m)
       /\ checkWinCondition([gameState |-> PLAYING, score |-> 0, mario |-> m,
                             rivets |-> << >>],
                            [currentLevel |-> GIRDERS, bonus |-> 5000]).gameState
            = LEVEL_COMPLETE

DeathTrigger ==
  \/ mario'.y > CANVAS_HEIGHT * U
  \/ /\ ~marioHasHammer
     /\ \/ \E i \in 1..Len(barrels') :
             checkCollision(marioRect(mario'), barrelRect(barrels'[i]))
        \/ \E i \in 1..Len(fireballs') :
             checkCollision(marioRect(mario'), fireballRect(fireballs'[i]))

\* C7: a Playing tick in which a death trigger fires ends in MarioDeath.
C7_DeathTriggerEndsInMarioDeath ==
  [][PlayingTick /\ DeathTrigger => gameState' = MARIO_DEATH]_vars

\* reached: Mario has fallen below the screen and the tick ended in MarioDeath
C7_Witness ==
  /\ gameState = MARIO_DEATH
  /\ ran = PlayingUpdates
  /\ mario.y > CANVAS_HEIGHT * U

\* a frame of DonkeyKongAtari ran in this step
AtariTick ==
  mounted = "DonkeyKongAtari" /\ atari.gameState = "playing" /\ budget' = budget - 1

\* a hazard without its object reference and its reward count
Body(h) == [h EXCEPT !.ref = 0, !.paid = 0]

\* the barrel (fireball) of index i before the frame is still live after it
BarrelLives(i) ==
  \E j \in 1..Len(atari'.barrels), d \in BOOLEAN :
    /\ atari'.barrels[j].active
    /\ Body(atari'.barrels[j]) = Body(atariMoveBarrel(atari.barrels[i], d, 0))

FireballLives(i) ==
  \E j \in 1..Len(atari'.fireballs),
     d \in {"roll", "climb", "up", "down", "upStop", "downStop"} :
    /\ atari'.fireballs[j].active
    /\ Body(atari'.fireballs[j]) = Body(atariMoveFireball(atari.fireballs[i], d, 0))

\* Mario touches a barrel of the list after a DonkeyKong tick
BarrelOnMario ==
  \E i \in 1..Len(barrels') : checkCollision(marioRect(mario'), barrelRect(barrels'[i]))

FireballOnMario ==
  \E i \in 1..Len(fireballs') :
    checkCollision(marioRect(mario'), fireballRect(fireballs'[i]))

\* C8: in a tick in which Mario holds the hammer and a live hazard overlaps
\* him, the hazard leaves the live set, the score rises by its reward (300 for
\* a barrel, 500 for a fireball of DonkeyKongAtari) and the tick costs no life
\* and does not end the game; in DonkeyKong no barrel is left on Mario and the
\* barrel does not cause MarioDeath.
C8_HammerDestroysHazard ==
  [][/\ AtariTick /\ atari.mario.hasHammer
          /\ atariHitBarrels(atari) \cup atariHitFireballs(atari) # {} =>
          /\ \A i \in atariHitBarrels(atari) : ~BarrelLives(i)
          /\ \A i \in atariHitFireballs(atari) : ~FireballLives(i)
          /\ atari'.score = atari.score + 300 * Cardinality(atariHitBarrels(atari))
                              + 500 * Cardinality(atariHitFireballs(atari))
          /\ atari'.lives = atari.lives
          /\ atari'.gameState # "gameOver"
     /\ PlayingTick /\ marioHasHammer =>
          /\ ~BarrelOnMario
          /\ gameState' = MARIO_DEATH =>
               mario'.y > CANVAS_HEIGHT * U \/ FireballOnMario]_vars

\* the barrel spawned by the DonkeyKong tick, if any
SpawnedBarrels ==
  IF currentLevel = GIRDERS /\ gameTime' % 120 = 0 /\ Len(barrels) < 4 THEN 1 ELSE 0

\* C9: a hazard is rewarded at most once, and once rewarded it is no longer
\* live: no live hazard of DonkeyKongAtari has been rewarded, and a DonkeyKong
\* tick without a win adds at most 300 for each barrel that left the list.
C9_HazardRewardedOnce ==
  /\ [](/\ \A i \in 1..Len(atari.barrels) :
             atari.barrels[i].active => atari.barrels[i].paid = 0
        /\ \A i \in 1..Len(atari.fireballs) :
             atari.fireballs[i].active => atari.fireballs[i].paid = 0)
  /\ [][PlayingTick /\ ~WinReached(currentLevel, mario', rivets) =>
          score' - score <= 300 * (Len(barrels) + SpawnedBarrels - Len(barrels'))]_vars

\* a new game starts in this step (startGame of either component)
GameStarts ==
  \/ gameState = TITLE_SCREEN /\ gameState' = HOW_HIGH_SCREEN
  \/ atari.gameState \in {"title", "gameOver"} /\ atari'.gameState = "playing"

DeathAcknowledged ==
  gameState = MARIO_DEATH /\ gameTime' = gameTime /\ timers' = timers

InitializeStep ==
  timers # << >> /\ Head(timers).kind = "play" /\ timers' = Tail(timers)

\* C13: initializeLevel, whatever the state it is called in, leaves bonus 5000,
\* bonus timer 0, no barrel, no fireball, the hammer not held with timer 0 and
\* Mario at the start point, and calling it again on its result changes nothing.
C13_InitializeLevelResetsAndIsIdempotent ==
  [][InitializeStep =>
       /\ LevelState' = levelInitialized(LevelState, Head(timers).lv)
       /\ levelInitialized(levelInitialized(LevelState, Head(timers).lv),
                           Head(timers).lv)
            = levelInitialized(LevelState, Head(timers).lv)
       /\ bonus' = 5000 /\ bonusTimer' = 0
       /\ barrels' = << >> /\ fireballs' = << >>
       /\ ~marioHasHammer' /\ hammerTimer' = 0
       /\ mario' = startMario]_vars

\* reached: initializeLevel has run in the middle of play, with the hammer
\* held, a barrel rolling and the bonus at 4900
C13_Witness ==
  /\ initIn = PLAYING
  /\ gameTime = 90
  /\ bonus = 5000 /\ bonusTimer = 0
  /\ barrels = << >> /\ ~marioHasHammer /\ hammerTimer = 0
  /\ mario = startMario

IdleTick == mounted = "DonkeyKong" /\ gameState # PLAYING /\ gameTime' = gameTime + 1

\* C17: the bonus timer counts the Playing ticks since initializeLevel modulo
\* 60; the Playing tick that takes it to 60 lowers the bonus by 100, floored at
\* 0, and no other tick changes the bonus; a tick in another phase changes
\* neither the timer nor the bonus.  So k Playing ticks after initializeLevel
\* the bonus is max(0, 5000 - 100 * floor(k / 60)).
C17_BonusDropsEverySixtiethPlayingTick ==
  /\ [](bonusTimer \in 0..59)
  /\ [][/\ PlayingTick =>
             /\ bonusTimer' = (bonusTimer + 1) % 60
             /\ bonus' = IF bonusTimer = 59 THEN Max(0, bonus - 100) ELSE bonus
        /\ IdleTick => bonusTimer' = bonusTimer /\ bonus' = bonus]_vars

\* frames run since Mario was put at the hammer spot
HoldTicks == HoldFrames - budget

\* C18: Mario standing at a hammer spot picks the hammer up in the first tick;
\* the hammer flag is then true after each of the ticks 1 .. 300 and false
\* after tick 301, so the 300 ticks that follow the pickup find it true and
\* the last of them clears it (DonkeyKong is followed up to that tick, the
\* tick after it being free to pick up again).
C18_HammerHeldThreeHundredTicks ==
  /\ mounted = "DonkeyKong" /\ HoldTicks <= 301 =>
       (marioHasHammer <=> HoldTicks \in 1..300)
  /\ mounted = "DonkeyKong" /\ HoldTicks <= 301 /\ marioHasHammer =>
       hammerTimer = 301 - HoldTicks
  /\ mounted = "DonkeyKongAtari" => (atari.mario.hasHammer <=> HoldTicks \in 1..300)
  /\ mounted = "DonkeyKongAtari" /\ atari.mario.hasHammer =>
       atari.mario.hammerTimer = 301 - HoldTicks

\* reached: DonkeyKong's tick 301 has cleared the flag, still in Playing
C18_Witness ==
  /\ mounted = "DonkeyKong"
  /\ HoldTicks = 301
  /\ gameState = PLAYING
  /\ ~marioHasHammer
  /\ hammerTimer = 0

LevelAcknowledged ==
  /\ gameState \in {LEVEL_COMPLETE, INTERLUDE}
  /\ gameTime' = gameTime
  /\ Len(timers') = Len(timers) + 1

\* C20: a click in LevelComplete or Interlude on level number n of variant v
\* sets the level number to n + 1, the variant to (v + 1) mod 4, adds exactly
\* 1000 * n to the score and sets the phase to LevelIntro.
C20_NextLevelAdvancesAndPays ==
  [][LevelAcknowledged =>
       /\ level' = level + 1
       /\ currentLevel' = (currentLevel + 1) % 4
       /\ score' = score + 1000 * level
       /\ gameState' = LEVEL_INTRO]_vars

\* reached: the click after the fourth level (Conveyors) has led to the intro
\* of level 5 on the Girders variant, 4000 points richer
C20_Witness ==
  /\ gameState = LEVEL_INTRO
  /\ level = 5
  /\ currentLevel = GIRDERS
  /\ score = 15000
  /\ timers # << >>

\* the click on the canvas in GameOver: handleCanvasClick runs resetGame
GameOverAcknowledged ==
  /\ mounted = "DonkeyKong"
  /\ gameState = GAME_OVER
  /\ gameTime' = gameTime
  /\ timers' = timers

\* Math.max(a, b), which is NaN when either argument is
MathMax(a, b) == IF a = NaN \/ b = NaN THEN NaN ELSE Max(a, b)

C22_UnusableItemMeansZero ==
  /\ mounted = "DonkeyKong" /\ stored.kind # "digits" => highScore = 0
  /\ mounted = "DonkeyKongAtari" /\ atari.stored.kind # "digits" => atari.highScore = 0

\* C23: DonkeyKong: the barrel list never has more than 4 entries and the
\* fireball list never more than 2; the barrel list grows only in a Playing
\* tick on the Girders level and the fireball list only in one on the Rivets
\* level.
C23_HazardCapsAndLevels ==
  /\ [](Len(barrels) <= 4 /\ Len(fireballs) <= 2)
  /\ [][/\ Len(barrels') > Len(barrels) => PlayingTick /\ currentLevel = GIRDERS
        /\ Len(fireballs') > Len(fireballs) => PlayingTick /\ currentLevel = RIVET]_vars

\* tick 600 on Girders and tick 540 on Rivets have run with the lists full
C23_Witness ==
  /\ ran = PlayingUpdates
  /\ \/ currentLevel = GIRDERS /\ gameTime = 600 /\ Len(barrels) = 4
     \/ currentLevel = RIVET /\ gameTime = 540 /\ Len(fireballs) = 2

\* the start command: the click in Title (startGame), and in DonkeyKongAtari
\* the jump key in title or gameOver
StartCommand == gameState = TITLE_SCREEN /\ gameState' = HOW_HIGH_SCREEN

atariStartCommand ==
  atari.gameState \in {"title", "gameOver"} /\ atari'.gameState = "playing"

\* C24: DonkeyKong and DonkeyKongAtari: no step lowers the score, except that
\* a start command sets it to 0 for a new game.
C24_ScoreFallsOnlyAtStart ==
  [][/\ score' >= score \/ (StartCommand /\ score' = 0)
     /\ atari'.score >= atari.score \/ (atariStartCommand /\ atari'.score = 0)]_vars

\* DonkeyKong: a new game has been started after one that ended with 9100
\* points
C24_Witness ==
  /\ mounted = "DonkeyKong"
  /\ gameState = HOW_HIGH_SCREEN
  /\ score = 0
  /\ stored = Digits(9100)

\* C25: after every updateMario, whatever intents are held and on every level,
\* Mario's x is in [0, 208] in DonkeyKong and in [0, 304] in DonkeyKongAtari.
C25_MarioStaysOnScreen ==
  /\ mounted = "DonkeyKong" =>
       mario.x >= 0 /\ mario.x <= (CANVAS_WIDTH - MARIO_WIDTH) * U
  /\ mounted = "DonkeyKongAtari" => atari.mario.x >= 0 /\ atari.mario.x <= 304 * U

\* on the leftward conveyor belt at y = 200 the step of 1.5 pixels to the left
\* from x = 1 was cut at the edge
C25_Witness ==
  /\ mounted = "DonkeyKong"
  /\ currentLevel = CONVEYOR
  /\ gameTime = 1
  /\ ran = PlayingUpdates
  /\ mario.x = 0
  /\ mario.vx = 0 - 15

LastRivetMarked ==
  /\ mounted = "DonkeyKong"
  /\ PlayingTick
  /\ currentLevel = RIVET
  /\ ~AllRemoved(rivets)
  /\ AllRemoved(rivets')

BarrelThrown ==
  mounted = "DonkeyKong" /\ PlayingTick /\ throwsBarrel(currentLevel, gameTime', barrels)

FireballSpawned ==
  mounted = "DonkeyKong" /\ PlayingTick
    /\ spawnsFireball(currentLevel, gameTime', fireballs)

AtBound(e) == e.y <= 50 * U \/ e.y >= 200 * U

\* C29: DonkeyKong, Elevators level: each of the six elevators always has
\* direction 1 or -1 and y in [50 - speed, 200 + speed], and a tick that finds
\* an elevator at or beyond a bound leaves it strictly between 50 and 200.
C29_ElevatorsTurnAtTheBounds ==
  /\ [](currentLevel = ELEVATOR =>
          /\ Len(elevators) = 6
          /\ \A i \in 1..6 :
               /\ elevators[i].direction \in {1, 0 - 1}
               /\ elevators[i].y >= 50 * U - elevators[i].speed
               /\ elevators[i].y <= 200 * U + elevators[i].speed)
  /\ [][PlayingTick /\ currentLevel = ELEVATOR =>
          \A i \in 1..6 :
            AtBound(elevators[i]) =>
              elevators'[i].y > 50 * U /\ elevators'[i].y < 200 * U]_vars

\* the third elevator (speed 0.8) has come down to exactly y = 200 and turned,
\* the sixth (speed 1.3) is on its way up
C29_Witness ==
  /\ currentLevel = ELEVATOR
  /\ ran = PlayingUpdates
  /\ elevators[3].y = 200 * U
  /\ elevators[3].direction = 0 - 1
  /\ elevators[6].direction = 0 - 1

\* the number of live (active) hazards of a list
atariLive(list) == Len(SelectSeq(list, IsActive))

\* C30: DonkeyKongAtari: there are never more than 4 live barrels and never
\* more than 2 live fireballs.
C30_AtariHazardCaps ==
  mounted = "DonkeyKongAtari" =>
    atariLive(atari.barrels) <= 4 /\ atariLive(atari.fireballs) <= 2

\* a Playing tick in which a barrel leaves the list
BarrelLeaves ==
  /\ gameState = PLAYING
  /\ Len(barrels') < Len(barrels) + SpawnedBarrels

AtStartPoint == gameState = PLAYING /\ currentLevel = GIRDERS /\ mario = startMario

\* a jump intent held at the start point is accepted: Mario leaves upwards
JumpAccepted == marioPhysics(mario, GIRDERS, elevators, {"jump"}).vy < 0

BonusAdded ==
  /\ PlayingTick
  /\ bonus > 0
  /\ WinReached(currentLevel, mario', rivets)
  /\ score' >= score + bonus

C34_AtariOneLifePerTick ==
  /\ [](atari.lives >= 0)
  /\ [][AtariTick => atari'.lives >= atari.lives - 1]_vars

\* the phases in which a level is shown or played
LevelPhases == {LEVEL_INTRO, PLAYING, MARIO_DEATH, LEVEL_COMPLETE, INTERLUDE}

PacTick ==
  mounted = "Game3D" /\ game3d.gameState.gameStatus = "playing" /\ budget' = budget - 1

\* the maze cell next to Pac-Man's cell in the direction (dx, dz) is on the
\* grid and not a wall
NeighbourOpen(dx, dz) ==
  passable(game3d.maze, (MathRound(game3d.pacmanPos.x) + dx) * H,
           (MathRound(game3d.pacmanPos.z) + dz) * H)

\* Pac-Man after a frame with the keys k held, in the maze as laid out
PacStep(pos, k) ==
  [x |-> pacmanMoved(MAZE_LAYOUT, pos, k).x, z |-> pacmanMoved(MAZE_LAYOUT, pos, k).z]

RECURSIVE PacReach(_, _)
PacGrow(seen, new) == PacReach(seen \cup new, new)

\* the positions Pac-Man can take, whatever keys are held in which frames
PacReach(seen, frontier) ==
  IF frontier = {} THEN seen
  ELSE PacGrow(seen, {PacStep(pos, k) : pos \in frontier, k \in SUBSET MoveKeys} \ seen)

\* C36: Game3D, status 'playing', Pac-Man at his initial position or further
\* on: in a frame in which one movement key is held and the maze cell next to
\* Pac-Man's in that direction is not a wall his position changes; and from
\* the initial position (10, 15) some sequence of keys takes him onto a dot.
C36_KeysMovePacMan ==
  /\ [][PacTick /\ caughtBy(game3d.pacmanPos, game3d.ghosts) = {} =>
          /\ game3d.keys = {"w"} /\ NeighbourOpen(0, 0 - 1) =>
               game3d'.pacmanPos # game3d.pacmanPos
          /\ game3d.keys = {"arrowdown"} /\ NeighbourOpen(0, 1) =>
               game3d'.pacmanPos # game3d.pacmanPos
          /\ game3d.keys = {"a"} /\ NeighbourOpen(0 - 1, 0) =>
               game3d'.pacmanPos # game3d.pacmanPos
          /\ game3d.keys = {"d"} /\ NeighbourOpen(1, 0) =>
               game3d'.pacmanPos # game3d.pacmanPos]_vars
  /\ [](game3d.gameState.gameStatus = "playing" =>
          \E pos \in PacReach({pacmanStart}, {pacmanStart}) :
            cellAt(MAZE_LAYOUT, MathRound(pos.x), MathRound(pos.z)) = 2)

\* the points of the dot or pellet that the frame collects
CollectedPoints ==
  IF collected(game3d.maze, pacmanMoved(game3d.maze, game3d.pacmanPos, game3d.keys)) = 2
  THEN 10
  ELSE IF collected(game3d.maze,
                    pacmanMoved(game3d.maze, game3d.pacmanPos, game3d.keys)) = 3
  THEN 50
  ELSE 0

\* the points of the ghosts that the frame finds within the distance in the
\* power mode
EatenPoints ==
  IF game3d.gameState.powerMode
  THEN 200 * Cardinality(caughtBy(game3d.pacmanPos, game3d.ghosts))
  ELSE 0

PelletTick ==
  /\ PacTick
  /\ collected(game3d.maze,
               pacmanMoved(game3d.maze, game3d.pacmanPos, game3d.keys)) = 3

\* the power mode goes off during play
PowerModeEnds ==
  /\ mounted = "Game3D"
  /\ game3d.gameState.powerMode
  /\ ~game3d'.gameState.powerMode
  /\ game3d'.gameState.gameStatus = game3d.gameState.gameStatus

====
